---- MODULE Spec2Model ----
(***************************************************************************)
(* Model of the scraping core of aDx-Zhang/Scrapper01:                     *)
(*   - the Proxy table (models.Proxy) and the two ProxyManager classes     *)
(*     that act on it (scraper/proxy_manager.py, utils/proxy_manager.py);  *)
(*   - the two get_with_retry loops (attached_assets/base_scraper.py on    *)
(*     top of scraper/proxy_manager.py, scraper/base_scraper.py on top of  *)
(*     utils/proxy_manager.py);                                            *)
(*   - the strategy chains of the scrapers' search methods;                *)
(*   - SimpleScraperManager.search (registry lookup, pagination, mock      *)
(*     fallback).                                                          *)
(***************************************************************************)
EXTENDS Integers, Sequences, FiniteSets, TLC

VARIABLES
    impl,           \* which ProxyManager class the process imported
    max_failures,   \* scraper.ProxyManager.max_failures
    proxies,        \* the Proxy table: slot -> row
    local_proxies,  \* utils.ProxyManager.local_proxies (set of URLs)
    now,            \* datetime.utcnow(), in ticks of TickMinutes
    pc,             \* get_with_retry: "idle" | "loop" | "done"
    max_retries,    \* get_with_retry: the max_retries argument
    usePM,          \* get_with_retry: self.proxy_manager is set
    retries,        \* get_with_retry: retries / current_retry
    curProxy,       \* get_with_retry: proxy / current_proxy (a handle)
    kwProxies,      \* get_with_retry: kwargs['proxies'] (utils stack)
    result,         \* get_with_retry: value returned ("pending" while running)
    attempts,       \* history: HTTP attempts issued by the current call
    lastAttempt,    \* history: the latest HTTP attempt of the current call
    authFailed,     \* history: proxies that answered 407 in the current call
    failedVia,      \* history: failed attempts through a proxy since its last success
    lastGot,        \* history: what the last get_proxy returned
    observe,        \* which of the history variables this run records
    scraperRun,     \* history: last scraper-level search (chain, outcomes, result)
    response,       \* history: last SimpleScraperManager.search call and its response
    calls,          \* get_proxy calls in flight: caller -> what it selected
    candidate,      \* history: the last candidate item a strategy decided on
    manager,        \* SimpleScraperManager(): its construction, scrapers, last lookup
    fanout,         \* search_items: the request being served and its result so far
    verifyRun,      \* verify_proxies: the run in progress (futures, result lists, marks)
    testCache,      \* the lru_cache of test_proxy: proxy -> cached is_working
    textCall,       \* history: the last call of a text_matching function
    built,          \* history: the last item a scraper built from a payload
    evaluation,     \* history: an item and filters under repeated _passes_filters calls
    pager,          \* history: the pages requested in turn over one result list
    monitor         \* the stored Monitor row and the running next_update_filter call

poolVars   == <<impl, max_failures, proxies, local_proxies, now>>
fetchVars  == <<pc, max_retries, usePM, retries, curProxy, kwProxies, result,
                attempts, lastAttempt, authFailed>>
searchVars == <<scraperRun, response, candidate, manager>>
raceVars   == <<calls>>
verifyVars == <<verifyRun, testCache>>
auxVars    == <<fanout, verifyRun, testCache, textCall, built, evaluation, pager, monitor>>
(* the variables of auxVars an action of one part leaves alone *)
notFanOut  == <<verifyVars, textCall, built, evaluation, pager, monitor>>
notVerify  == <<fanout, textCall, built, evaluation, pager, monitor>>
notText    == <<fanout, verifyVars, built, evaluation, pager, monitor>>
notBuilt   == <<fanout, verifyVars, textCall, evaluation, pager, monitor>>
notEval    == <<fanout, verifyVars, textCall, built, pager, monitor>>
notPager   == <<fanout, verifyVars, textCall, built, evaluation, monitor>>
notMonitor == <<fanout, verifyVars, textCall, built, evaluation, pager>>
vars == <<impl, max_failures, proxies, local_proxies, now,
          pc, max_retries, usePM, retries, curProxy, kwProxies, result,
          attempts, lastAttempt, authFailed, failedVia, lastGot, observe,
          scraperRun, response, calls, candidate, manager, fanout,
          verifyRun, testCache, textCall, built, evaluation, pager, monitor>>

-----------------------------------------------------------------------------
(* Bounds of the model *)

NumProxies == 2
MaxAdded == 1
MaxNow == 1
ExtraFailures == 1
MaxItems == 3
MaxPage == 4
MaxPerPage == 2
MaxPrice == 2
MaxMarkets == 2
MaxBack == 20

(* Program constants *)

default_max_failures == 3
cooldown_minutes == 10
default_max_retries == 3
utils_failure_limit == 5
default_interval == 30
min_interval == 5
max_interval == 1440
default_items_per_page == 20
mock_count_min == 5
mock_count_max == 15

ProxyIds == 1..NumProxies
(* the rows an administrator adds while get_with_retry runs *)
AddedIds == 1..MaxAdded
(* the threads or worker processes that may be inside get_proxy at once *)
Callers == {1, 2}
Min(a, b) == IF a < b THEN a ELSE b
Max(a, b) == IF a > b THEN a ELSE b
NULL == -1
(* one tick of the clock is one cooldown period *)
TickMinutes == cooldown_minutes
CooldownTicks == cooldown_minutes \div TickMinutes
MaxFailuresValues == {default_max_failures - 1, default_max_failures}
MaxRetriesValues == {1, default_max_retries}

-----------------------------------------------------------------------------
(* models.Proxy: static columns of the row in slot p, and get_proxy_url *)

HasCredentials(p) == p % 2 = 1
Country(p) == IF p % 3 = 0 THEN "DE" ELSE "PL"

Tok(t, n) == [t |-> t, n |-> n]
Colon == Tok(":", 0)
At == Tok("@", 0)

get_proxy_url(p) ==
    IF HasCredentials(p)
    THEN <<Tok("http", 0), Colon, Tok("//", 0), Tok("user", p), Colon, Tok("pass", p),
           At, Tok("ip", p), Colon, Tok("port", p)>>
    ELSE <<Tok("http", 0), Colon, Tok("//", 0), Tok("ip", p), Colon, Tok("port", p)>>

NewRow == [exists |-> TRUE, is_active |-> TRUE, failure_count |-> 0, last_used |-> NULL]
NoRow == [exists |-> FALSE, is_active |-> FALSE, failure_count |-> 0, last_used |-> NULL]

(* A proxy handle as the fetch layer holds it: the ORM object (obj) in the *)
(* scraper stack, the URL string (url) in the utils stack.                 *)
NoProxy == [obj |-> 0, url |-> <<>>]
ObjHandle(p) == [obj |-> p, url |-> <<>>]
UrlHandle(p) == [obj |-> 0, url |-> get_proxy_url(p)]

(* The proxy server a handle routes through (0: direct connection) *)
ProxyOfUrl(u) ==
    IF \E p \in ProxyIds : get_proxy_url(p) = u
    THEN CHOOSE p \in ProxyIds : get_proxy_url(p) = u
    ELSE 0
Via(h) == IF h.obj # 0 THEN h.obj ELSE ProxyOfUrl(h.url)

-----------------------------------------------------------------------------
(* str.split as report_proxy_failure / reset_failure_count use it *)

RECURSIVE SplitFrom(_, _, _, _, _)
SplitFrom(s, sep, i, cur, acc) ==
    IF i > Len(s) THEN Append(acc, cur)
    ELSE IF s[i] = sep THEN SplitFrom(s, sep, i + 1, <<>>, Append(acc, cur))
    ELSE SplitFrom(s, sep, i + 1, Append(cur, s[i]), acc)

Split(s, sep) == SplitFrom(s, sep, 1, <<>>, <<>>)

(* proxy_url.split('@')[-1].split(':')[0] *)
ExtractIp(url) ==
    LET proxy_parts == Split(url, At)
        ip_port == Split(proxy_parts[Len(proxy_parts)], Colon)
    IN  ip_port[1]

(* Proxy.query.filter_by(ip=ip).first(); 0 when no row matches.  The ip    *)
(* column of slot p holds Tok("ip", p), so at most one row matches.        *)
FirstByIp(T, ip) ==
    IF \E p \in ProxyIds : T[p].exists /\ ip = <<Tok("ip", p)>>
    THEN CHOOSE p \in ProxyIds : T[p].exists /\ ip = <<Tok("ip", p)>>
    ELSE 0

-----------------------------------------------------------------------------
(* scraper/proxy_manager.py *)

mark_success_reactivating(T, p, t) ==
    [T EXCEPT ![p] = [@ EXCEPT !.last_used = t, !.failure_count = 0, !.is_active = TRUE]]

mark_success(T, p, t) ==
    [T EXCEPT ![p] = [@ EXCEPT !.last_used = t,
                               !.failure_count = IF @ > 0 THEN 0 ELSE @]]

mark_failure_late(T, p, t) ==
    [T EXCEPT ![p] = [@ EXCEPT !.failure_count = @ + 1,
                               !.last_used = t,
                               !.is_active = IF T[p].failure_count + 1 > max_failures
                                             THEN FALSE ELSE @]]

mark_failure(T, p, t) ==
    [T EXCEPT ![p] = [@ EXCEPT !.failure_count = @ + 1,
                               !.last_used = t,
                               !.is_active = IF T[p].failure_count + 1 >= max_failures
                                             THEN FALSE ELSE @]]

(* The set of rows get_proxy may select (0: returns None) *)
available_proxies(T) ==
    {p \in ProxyIds : T[p].exists /\ T[p].is_active /\ T[p].failure_count < max_failures}

fresh_proxies(T, t) ==
    {p \in available_proxies(T) :
        T[p].last_used = NULL \/ T[p].last_used <= t - CooldownTicks}

get_proxy_pm(T, t) ==
    LET available == available_proxies(T)
        fresh == fresh_proxies(T, t)
        auth == {p \in fresh : HasCredentials(p)}
    IN  IF {p \in ProxyIds : T[p].exists} = {} THEN {0}
        ELSE IF available = {} THEN {0}
        ELSE IF fresh # {} THEN (IF auth # {} THEN auth ELSE fresh)
        ELSE {p \in available :
                \A q \in available : T[p].last_used <= T[q].last_used}

(* scraper.ProxyManager.add_proxy: always inserts a new row *)
add_proxy_pm(T, p) == [T EXCEPT ![p] = NewRow]

-----------------------------------------------------------------------------
(* utils/proxy_manager.py *)

report_proxy_failure(T, url) ==
    LET p == FirstByIp(T, ExtractIp(url))
    IN  IF p = 0 THEN T
        ELSE [T EXCEPT ![p] = [@ EXCEPT !.failure_count = @ + 1,
                                        !.is_active =
                                            IF T[p].failure_count + 1 >= utils_failure_limit
                                            THEN FALSE ELSE @]]

reset_failure_count(T, url) ==
    LET p == FirstByIp(T, ExtractIp(url))
    IN  IF p # 0 /\ T[p].failure_count > 0
        THEN [T EXCEPT ![p].failure_count = 0]
        ELSE T

(* query.order_by(failure_count.asc(), last_used.asc()).first(): the rows  *)
(* the database may return first; NULL last_used sorts first or last       *)
(* depending on the database behind DATABASE_URL.                          *)
get_proxy_query(T) ==
    LET cand == {p \in ProxyIds : T[p].exists /\ T[p].is_active /\ Country(p) = "PL"}
        least == {p \in cand : \A q \in cand : T[p].failure_count <= T[q].failure_count}
        nulls == {p \in least : T[p].last_used = NULL}
        dated == least \ nulls
        oldest == {p \in dated : \A q \in dated : T[p].last_used <= T[q].last_used}
    IN  IF nulls = {} THEN oldest
        ELSE IF dated = {} THEN nulls
        ELSE nulls \cup oldest

(* utils.ProxyManager.add_proxy *)
add_proxy_utils(T, p) ==
    IF T[p].exists
    THEN (IF ~T[p].is_active
          THEN [T EXCEPT ![p] = [@ EXCEPT !.is_active = TRUE, !.failure_count = 0]]
          ELSE T)
    ELSE [T EXCEPT ![p] = NewRow]

add_proxy_cache(T, lp, p) ==
    IF T[p].exists THEN lp ELSE lp \cup {get_proxy_url(p)}

-----------------------------------------------------------------------------
(* The proxy manager as the fetch layer sees it *)

(* get_proxy: the possible outcomes, each the handle returned and the      *)
(* table after the last_used update                                        *)
GetProxyOutcomes(T, lp, t) ==
    IF impl = "scraper"
    THEN {[handle |-> IF p = 0 THEN NoProxy ELSE ObjHandle(p),
           table |-> IF p = 0 THEN T ELSE [T EXCEPT ![p].last_used = t]] :
            p \in get_proxy_pm(T, t)}
    ELSE IF get_proxy_query(T) # {}
    THEN {[handle |-> UrlHandle(p), table |-> [T EXCEPT ![p].last_used = t]] :
            p \in get_proxy_query(T)}
    ELSE IF lp # {}
    THEN {[handle |-> [obj |-> 0, url |-> u], table |-> T] : u \in lp}
    ELSE {[handle |-> NoProxy, table |-> T]}

ReportSuccess(T, h, t) ==
    IF impl = "scraper" THEN mark_success(T, h.obj, t) ELSE reset_failure_count(T, h.url)

ReportFailure(T, h, t) ==
    IF impl = "scraper" THEN mark_failure(T, h.obj, t) ELSE report_proxy_failure(T, h.url)

(* The deactivation threshold of the imported manager *)
FailureLimit == IF impl = "scraper" THEN max_failures ELSE utils_failure_limit

Handle(p) == IF impl = "scraper" THEN ObjHandle(p) ELSE UrlHandle(p)

(* history record of a get_proxy return *)
Got(h, T) ==
    [via |-> Via(h),
     is_active |-> IF Via(h) = 0 THEN FALSE ELSE T[Via(h)].is_active,
     failure_count |-> IF Via(h) = 0 THEN 0 ELSE T[Via(h)].failure_count]

-----------------------------------------------------------------------------
(* get_with_retry: one iteration of the retry loop.                        *)
(* Outcomes of the HTTP attempt: a response with status 200, 403/429       *)
(* ("blocked") or another status ("other"); a RequestException ("error");  *)
(* a RequestException whose text has "407 Proxy Authentication Required"   *)
(* ("auth407"); an exception that is no RequestException ("unexpected").   *)

Responses == {"200", "blocked", "other"}
Outcomes == Responses \cup {"error", "auth407", "unexpected"}

(* result of an iteration: table, proxy and kwargs['proxies'] afterwards,  *)
(* how the iteration leaves the loop (exit: "none", "response", "raise"),   *)
(* which proxies got a success or failure report, and whether get_proxy    *)
(* was called (got)                                                        *)
Iter(T, h, kw, exit, succ, fail, got) ==
    [table |-> T, proxy |-> h, kw |-> kw, exit |-> exit,
     success |-> succ, failure |-> fail, got |-> got]

(* attached_assets/base_scraper.py, lines 62-185 *)
AttemptScraper(T, h, outcome) ==
    LET held == h # NoProxy /\ usePM
        T1 == IF outcome \in Responses /\ held THEN mark_success(T, h.obj, now) ELSE T
        succ == IF outcome \in Responses /\ held THEN {h.obj} ELSE {}
    IN  CASE outcome = "200" ->
                {Iter(T1, h, NoProxy, "response", succ, {}, FALSE)}
          [] outcome = "blocked" ->
                LET T2 == IF held THEN mark_failure(T1, h.obj, now) ELSE T1
                    fail == IF held THEN {h.obj} ELSE {}
                IN  IF usePM
                    THEN {Iter(o.table, o.handle, NoProxy, "none", succ, fail, TRUE) :
                            o \in GetProxyOutcomes(T2, local_proxies, now)}
                    ELSE {Iter(T2, h, NoProxy, "none", succ, fail, FALSE)}
          [] outcome = "other" ->
                {Iter(T1, h, NoProxy, "none", succ, {}, FALSE)}
          [] outcome = "auth407" ->
                LET T2 == IF held
                          THEN [T EXCEPT ![h.obj] = [@ EXCEPT !.failure_count = max_failures,
                                                              !.is_active = FALSE]]
                          ELSE T
                IN  {Iter(T2, NoProxy, NoProxy, "none", {}, {}, FALSE)}
          [] outcome = "error" ->
                IF held
                THEN {Iter(o.table, o.handle, NoProxy, "none", {}, {h.obj}, TRUE) :
                        o \in GetProxyOutcomes(mark_failure(T, h.obj, now), local_proxies, now)}
                ELSE {Iter(T, h, NoProxy, "none", {}, {}, FALSE)}
          [] outcome = "unexpected" ->
                {Iter(T, h, NoProxy, "none", {}, {}, FALSE)}

(* scraper/base_scraper.py, lines 83-126 *)
AttemptUtils(T, h, kw, outcome) ==
    LET held == h # NoProxy /\ usePM
    IN  CASE outcome = "200" ->
                {Iter(IF held THEN reset_failure_count(T, h.url) ELSE T, h, kw, "response",
                      IF held THEN {Via(h)} ELSE {}, {}, FALSE)}
          [] outcome = "other" ->
                {Iter(T, h, kw, "response", {}, {}, FALSE)}
          [] outcome \in {"blocked", "error", "auth407"} ->
                IF held
                THEN {Iter(o.table, o.handle, IF o.handle # NoProxy THEN o.handle ELSE kw,
                           "none", {}, {Via(h)}, TRUE) :
                        o \in GetProxyOutcomes(report_proxy_failure(T, h.url),
                                               local_proxies, now)}
                ELSE {Iter(T, h, kw, "none", {}, {}, FALSE)}
          [] outcome = "unexpected" ->
                {Iter(T, h, kw, "raise", {}, {}, FALSE)}

(* The proxy the next HTTP attempt is routed through (0: direct) *)
AttemptVia == IF impl = "scraper" THEN Via(curProxy) ELSE Via(kwProxies)

Attempt(outcome) ==
    IF impl = "scraper"
    THEN AttemptScraper(proxies, curProxy, outcome)
    ELSE AttemptUtils(proxies, curProxy, kwProxies, outcome)

WithinCount(T) ==
    \A p \in ProxyIds : T[p].failure_count <= FailureLimit + ExtraFailures

-----------------------------------------------------------------------------
(* Initial state: the manager is constructed over an empty Proxy table *)

NoRun == [status |-> "none", chain |-> "none", next |-> 1, invoked |-> <<>>,
          outcomes |-> <<>>, items |-> <<>>]
NoResponse == [status |-> "idle", marketplace |-> "none", page |-> 1,
               items_per_page |-> default_items_per_page, filters |-> "ok",
               results |-> <<>>, total |-> 0, has_more |-> FALSE,
               has_error |-> FALSE, error |-> "", placeholder |-> FALSE]
NoCall == [pc |-> "idle", selected |-> NoProxy, row |-> 0, fresh |-> {}]
NoItem == [price |-> 0, location |-> <<>>, condition |-> <<>>]
NoFilters == [price_min |-> NULL, price_max |-> NULL, location |-> <<>>, condition |-> <<>>]
NoCandidate == [scraper |-> "none", strategy |-> "none", item |-> NoItem,
                filters |-> NoFilters, included |-> FALSE]
NoManager == [status |-> "none", scrapers |-> {}, importable |-> {}, failing |-> {},
              asked |-> "none", got |-> "none"]
NoFanOut == [status |-> "idle", marketplaces |-> <<>>, next |-> 1, outcomes |-> <<>>,
             results |-> <<>>]
NoVerify == [status |-> "idle", submitted |-> {}, pending |-> {}, completed |-> {},
             is_working |-> {}, tested |-> {}, working |-> {}, failed |-> {},
             successes |-> [p \in ProxyIds |-> 0], failures |-> [p \in ProxyIds |-> 0]]
NoTextCall == [fn |-> "none", site |-> "none", text |-> <<>>, keywords |-> <<>>,
               threshold |-> 0, result |-> FALSE, price |-> NULL, currency |-> "none"]
(* soup.select_one gave None *)
Absent == [present |-> FALSE, text |-> <<>>]
NoPage == [title |-> Absent, price |-> Absent, seller |-> Absent, condition |-> Absent,
           url |-> <<>>, script |-> "none"]
NoDetails == [title |-> <<>>, price |-> NULL, currency |-> "none", seller_name |-> <<>>,
              condition |-> <<>>]
NoBuilt == [builder |-> "none", fetched |-> FALSE, page |-> NoPage, raised |-> FALSE,
            item |-> NoDetails]
NoEvaluation == [status |-> "idle", scraper |-> "none", item |-> NoItem, filters |-> NoFilters,
                 results |-> <<>>]
NoPager == [status |-> "idle", list |-> <<>>, items_per_page |-> 1, pages |-> <<>>]
NoMonitor == [exists |-> FALSE, interval_minutes |-> 0, pc |-> "idle", interval |-> 0,
              now |-> 0, next_run |-> 0, iterations |-> 0]
NoGot == [via |-> 0, is_active |-> FALSE, failure_count |-> 0]
NoAttempt == [via |-> 0, outcome |-> "none", success |-> {}, failure |-> {}, got |-> FALSE]

InitProxy ==
    /\ impl \in {"scraper", "utils"}
    /\ max_failures \in (IF impl = "scraper" THEN MaxFailuresValues ELSE {default_max_failures})
    /\ proxies = [p \in ProxyIds |-> NoRow]
    /\ local_proxies = {}
    /\ now = 0
    /\ pc = "idle"
    /\ max_retries = default_max_retries
    /\ usePM = FALSE
    /\ retries = 0
    /\ curProxy = NoProxy
    /\ kwProxies = NoProxy
    /\ result = "pending"
    /\ attempts = 0
    /\ lastAttempt = NoAttempt
    /\ authFailed = {}
    /\ failedVia = [p \in ProxyIds |-> 0]
    /\ lastGot = NoGot
    /\ scraperRun = NoRun
    /\ response = NoResponse
    /\ calls = [c \in Callers |-> NoCall]
    /\ candidate = NoCandidate
    /\ manager = NoManager
    /\ fanout = NoFanOut
    /\ verifyRun = NoVerify
    /\ testCache = [p \in ProxyIds |-> "none"]
    /\ textCall = NoTextCall
    /\ built = NoBuilt
    /\ evaluation = NoEvaluation
    /\ pager = NoPager
    /\ monitor = NoMonitor

(* history is recorded only for the variables named in observe *)
Obs(name, new, old) == IF name \in observe THEN new ELSE old

(* history: failed attempts through p, counted up to the limit *)
CountFailure(f, p) ==
    IF p = 0 THEN f
    ELSE [f EXCEPT ![p] = IF @ < FailureLimit THEN @ + 1 ELSE @]
ClearFailures(f, p) == IF p = 0 THEN f ELSE [f EXCEPT ![p] = 0]

-----------------------------------------------------------------------------
(* Operations of the proxy pool *)

(* ProxyManager.get_proxy called directly *)
GetProxy ==
    /\ \E o \in GetProxyOutcomes(proxies, local_proxies, now) :
          /\ proxies' = o.table
          /\ lastGot' = Obs("lastGot", Got(o.handle, o.table), lastGot)
    /\ UNCHANGED <<impl, max_failures, local_proxies, now, fetchVars, failedVia, observe, auxVars, raceVars, searchVars>>

(* mark_success(proxy) / reset_failure_count(proxy_url) for a known proxy *)
MarkSuccess(p) ==
    /\ proxies[p].exists
    /\ proxies' = ReportSuccess(proxies, Handle(p), now)
    /\ failedVia' = Obs("failedVia", ClearFailures(failedVia, p), failedVia)
    /\ UNCHANGED <<impl, max_failures, local_proxies, now, fetchVars, lastGot, observe, auxVars, raceVars, searchVars>>

(* mark_failure(proxy) / report_proxy_failure(proxy_url) for a known proxy *)
MarkFailure(p) ==
    /\ proxies[p].exists
    /\ WithinCount(ReportFailure(proxies, Handle(p), now))
    /\ proxies' = ReportFailure(proxies, Handle(p), now)
    /\ UNCHANGED <<impl, max_failures, local_proxies, now, fetchVars, failedVia, lastGot,
                   observe, auxVars, raceVars, searchVars>>

(* add_proxy(ip, port, ...): the administrative entry point *)
AddProxy(p) ==
    /\ IF impl = "scraper"
       THEN /\ ~proxies[p].exists
            /\ proxies' = add_proxy_pm(proxies, p)
            /\ UNCHANGED local_proxies
       ELSE /\ proxies' = add_proxy_utils(proxies, p)
            /\ local_proxies' = add_proxy_cache(proxies, local_proxies, p)
    /\ failedVia' = Obs("failedVia", ClearFailures(failedVia, p), failedVia)
    /\ UNCHANGED <<impl, max_failures, now, fetchVars, lastGot, observe, auxVars, raceVars, searchVars>>

(* scraper.ProxyManager.verify_proxies: every active proxy is tested and   *)
(* gets mark_success or mark_failure according to the test                 *)
verify_proxies(T, working, t) ==
    [p \in ProxyIds |->
        IF T[p].exists /\ T[p].is_active
        THEN (IF working[p] THEN mark_success(T, p, t)[p] ELSE mark_failure(T, p, t)[p])
        ELSE T[p]]

VerifyProxies ==
    /\ impl = "scraper"
    /\ \E working \in [ProxyIds -> BOOLEAN] :
          /\ WithinCount(verify_proxies(proxies, working, now))
          /\ proxies' = verify_proxies(proxies, working, now)
          /\ failedVia' = Obs("failedVia",
                               [p \in ProxyIds |->
                                  IF proxies[p].exists /\ proxies[p].is_active /\ working[p]
                                  THEN 0 ELSE failedVia[p]], failedVia)
    /\ UNCHANGED <<impl, max_failures, local_proxies, now, fetchVars, lastGot, observe, auxVars, raceVars, searchVars>>

(* utils.ProxyManager.__init__ runs again (the process restarts, or        *)
(* another SimpleScraperManager(use_proxies=True) is built): the Proxy     *)
(* table persists, local_proxies starts empty and _load_proxies' result is *)
(* dropped                                                                 *)
NewManager ==
    /\ impl = "utils"
    /\ pc # "loop"
    /\ local_proxies # {}
    /\ local_proxies' = {}
    /\ UNCHANGED <<impl, max_failures, proxies, now, fetchVars, failedVia, lastGot,
                   observe, auxVars, raceVars, searchVars>>

(* time passes *)
Tick ==
    /\ now < MaxNow
    /\ now' = now + 1
    /\ UNCHANGED <<impl, max_failures, proxies, local_proxies, fetchVars, failedVia, lastGot,
                   observe, auxVars, raceVars, searchVars>>

-----------------------------------------------------------------------------
(* get_with_retry *)

(* entry: lines 38-60 (attached_assets) / 72-81 (scraper): acquire a proxy *)
FetchStart(pm, mr) ==
    /\ pc \in {"idle", "done"}
    /\ usePM' = pm
    /\ max_retries' = mr
    /\ retries' = 0
    /\ result' = "pending"
    /\ attempts' = 0
    /\ lastAttempt' = NoAttempt
    /\ authFailed' = {}
    /\ pc' = "loop"
    /\ IF pm
       THEN \E o \in GetProxyOutcomes(proxies, local_proxies, now) :
               /\ proxies' = o.table
               /\ curProxy' = o.handle
               /\ kwProxies' = (IF impl = "utils" THEN o.handle ELSE NoProxy)
               /\ lastGot' = Obs("lastGot", Got(o.handle, o.table), lastGot)
       ELSE /\ curProxy' = NoProxy
            /\ kwProxies' = NoProxy
            /\ UNCHANGED <<proxies, lastGot>>
    /\ UNCHANGED <<impl, max_failures, local_proxies, now, failedVia, observe, auxVars, raceVars, searchVars>>

(* while retries < max_retries *)
LoopConditionInclusive(r, m) == r <= m
LoopCondition(r, m) == r < m

(* one pass through the body of the while loop *)
FetchAttempt(outcome) ==
    /\ pc = "loop"
    /\ LoopCondition(retries, max_retries)
    /\ outcome = "auth407" => AttemptVia # 0
    /\ \E it \in Attempt(outcome) :
          /\ WithinCount(it.table)
          /\ proxies' = it.table
          /\ curProxy' = it.proxy
          /\ kwProxies' = it.kw
          /\ lastAttempt' = Obs("lastAttempt",
                                 [via |-> AttemptVia, outcome |-> outcome,
                                  success |-> it.success, failure |-> it.failure,
                                  got |-> it.got], lastAttempt)
          /\ lastGot' = Obs("lastGot", IF it.got THEN Got(it.proxy, it.table) ELSE lastGot, lastGot)
          /\ IF it.exit = "none"
             THEN /\ retries' = retries + 1
                  /\ UNCHANGED <<pc, result>>
             ELSE /\ pc' = "done"
                  /\ result' = (IF it.exit = "raise" THEN "raised"
                                ELSE IF outcome = "200" THEN "response200"
                                ELSE "responseOther")
                  /\ UNCHANGED retries
    /\ attempts' = attempts + 1
    /\ authFailed' = Obs("lastAttempt",
                        IF outcome = "auth407" THEN authFailed \cup {AttemptVia} ELSE authFailed,
                        authFailed)
    /\ failedVia' = Obs("failedVia",
                       IF outcome \in {"blocked", "error", "auth407"}
                       THEN CountFailure(failedVia, AttemptVia)
                       ELSE ClearFailures(failedVia, AttemptVia), failedVia)
    /\ UNCHANGED <<impl, max_failures, local_proxies, now, max_retries, usePM, observe, auxVars, raceVars, searchVars>>

(* the loop condition fails: return None *)
FetchGiveUp ==
    /\ pc = "loop"
    /\ ~LoopCondition(retries, max_retries)
    /\ pc' = "done"
    /\ result' = "None"
    /\ UNCHANGED <<poolVars, max_retries, usePM, retries, curProxy, kwProxies,
                   attempts, lastAttempt, authFailed, failedVia, lastGot, observe, auxVars, raceVars, searchVars>>

NextProxy ==
    \/ GetProxy
    \/ \E p \in ProxyIds : MarkSuccess(p)
    \/ \E p \in ProxyIds : MarkFailure(p)
    \/ \E p \in AddedIds \cap ProxyIds : AddProxy(p)
    \/ VerifyProxies
    \/ NewManager
    \/ Tick
    \/ \E pm \in BOOLEAN, mr \in MaxRetriesValues : FetchStart(pm, mr)
    \/ \E outcome \in Outcomes : FetchAttempt(outcome)
    \/ FetchGiveUp

(* The utils stack with every proxy of the model registered by add_proxy, *)
(* with and without credentials, fetching through the proxy manager        *)
NextReport ==
    \/ \E p \in ProxyIds : AddProxy(p)
    \/ \E mr \in MaxRetriesValues : FetchStart(TRUE, mr)
    \/ \E outcome \in Outcomes : FetchAttempt(outcome)
    \/ FetchGiveUp
InitReport == InitProxy /\ impl = "utils" /\ observe = {"lastAttempt"}
SpecReport == InitReport /\ [][NextReport]_vars

(* The proxy pool and the fetch layer, without history *)
InitPool == InitProxy /\ observe = {}
SpecPool == InitPool /\ [][NextProxy]_vars

(* ... recording each HTTP attempt of get_with_retry *)
InitFetch == InitProxy /\ observe = {"lastAttempt"}
SpecFetch == InitFetch /\ [][NextProxy]_vars

(* ... recording the failed attempts through each proxy *)
InitHealth == InitProxy /\ observe = {"failedVia", "lastGot"}
SpecHealth == InitHealth /\ [][NextProxy]_vars

(* ... recording what get_proxy returns *)
InitAcquire == InitProxy /\ observe = {"lastGot"}
SpecAcquire == InitAcquire /\ [][NextProxy]_vars

-----------------------------------------------------------------------------
(* get_proxy under concurrency.  Neither manager takes a lock or a row     *)
(* lock: a call first reads the table and selects (scraper lines 55-92,    *)
(* utils lines 62-68), later writes last_used and commits (scraper lines   *)
(* 97-99, utils lines 72-73); other calls may run in between.  GetProxy    *)
(* above is a call that runs without such interference.                    *)

(* the eligible proxies outside the cooldown window *)
EligibleFresh(T, t) ==
    {p \in ProxyIds : /\ T[p].exists /\ T[p].is_active
                      /\ T[p].failure_count < FailureLimit
                      /\ (T[p].last_used = NULL \/ T[p].last_used <= t - CooldownTicks)}

(* the read half of get_proxy: the queries and the selection *)
GetProxySelect(c) ==
    /\ calls[c].pc = "idle"
    /\ \E o \in GetProxyOutcomes(proxies, local_proxies, now) :
          calls' = [calls EXCEPT ![c] =
                       [pc |-> "selected", selected |-> o.handle,
                        row |-> IF o.table = proxies THEN 0 ELSE Via(o.handle),
                        fresh |-> EligibleFresh(proxies, now)]]
    /\ UNCHANGED <<poolVars, fetchVars, failedVia, lastGot, observe, auxVars, searchVars>>

(* the write half: last_used = utcnow(), commit, return *)
GetProxyMark(c) ==
    /\ calls[c].pc = "selected"
    /\ proxies' = (IF calls[c].row = 0 THEN proxies
                   ELSE [proxies EXCEPT ![calls[c].row].last_used = now])
    /\ lastGot' = Obs("lastGot", Got(calls[c].selected, proxies'), lastGot)
    /\ calls' = [calls EXCEPT ![c] = NoCall]
    /\ UNCHANGED <<impl, max_failures, local_proxies, now, fetchVars, failedVia, observe, auxVars,
                   searchVars>>

NextRace ==
    \/ \E c \in Callers : GetProxySelect(c)
    \/ \E c \in Callers : GetProxyMark(c)
    \/ \E p \in ProxyIds : AddProxy(p)
    \/ \E p \in ProxyIds : MarkFailure(p)
    \/ Tick

(* Concurrent get_proxy calls over the pool *)
InitRace == InitProxy /\ observe = {}
SpecRace == InitRace /\ [][NextRace]_vars

-----------------------------------------------------------------------------
(* The scrapers' search methods: the chain of extraction strategies *)

(* The inputs of the model: list lengths a strategy may return (the spec's *)
(* pagination example has 45 items), pages and page sizes                  *)
ExampleTotals == {45}
ListSizes == (0..MaxItems) \cup ExampleTotals
Pages == 1..MaxPage
PageSizes == (1..MaxPerPage) \cup {default_items_per_page}
RAISES == -1
StrategyOutcomes == ListSizes \cup {RAISES}

(* filters as the caller passes them: well formed; a mapping with a value  *)
(* the URL construction cannot quote; not a mapping at all                 *)
FilterShapes == {"ok", "bad_value", "not_a_dict"}

Strategy(name, guarded) == [name |-> name, guarded |-> guarded]

(* the strategies in the order search tries them; guarded: the call is     *)
(* inside a try/except Exception of search                                 *)
StrategyList(chain) ==
    CASE chain = "olx" ->
            <<Strategy("_parse_with_api", TRUE),
              Strategy("_parse_with_trafilatura", TRUE),
              Strategy("_parse_search_page", TRUE)>>
      [] chain = "marketplace_scrapers.olx" ->
            <<Strategy("_parse_with_trafilatura", TRUE),
              Strategy("_parse_with_api", TRUE),
              Strategy("_parse_search_page", FALSE)>>
      [] OTHER ->
            <<Strategy("_parse_search_page", TRUE),
              Strategy("_parse_with_trafilatura", TRUE)>>

(* the extraction techniques a strategy applies, in the order of its code: *)
(* "api" a request to the marketplace's JSON API, "structured" JSON-LD     *)
(* script blocks or an embedded state blob, "dom" CSS selectors over the   *)
(* listing containers, "heuristic" regular expressions over the chunks of  *)
(* trafilatura's extracted text                                            *)
Techniques(chain, name) ==
    CASE name = "_parse_with_api" -> <<"api">>
      [] name = "_parse_search_page" -> <<"dom">>
      [] name = "_parse_with_trafilatura" /\ chain \in {"olx", "marketplace_scrapers.olx"} ->
            <<"dom">>
      [] name = "_parse_with_trafilatura"
            /\ chain \in {"allegro", "alejahandlowa", "otomoto", "vinted"} ->
            <<"structured", "heuristic">>
      [] OTHER -> <<"heuristic">>

RECURSIVE Attempted(_, _)
(* the techniques of the strategies in the sequence invoked, in order *)
Attempted(chain, invoked) ==
    IF invoked = <<>>
    THEN <<>>
    ELSE Techniques(chain, StrategyList(chain)[Head(invoked)].name)
             \o Attempted(chain, Tail(invoked))

(* the list strategy k returns when it finds n items *)
StrategyItems(k, n) == [j \in 1..n |-> [strategy |-> k, index |-> j]]

(* search up to the first strategy: query and URL construction *)
StartRun(chain, filters) ==
    [status |-> IF filters = "ok" THEN "running" ELSE "raised",
     chain |-> chain, next |-> 1, invoked |-> <<>>, outcomes |-> <<>>, items |-> <<>>]

StepRunMerging(run, outcome) ==
    LET k == run.next
        strategies == StrategyList(run.chain)
        called == [run EXCEPT !.invoked = Append(@, k), !.outcomes = Append(@, outcome),
                              !.items = @ \o StrategyItems(k, IF outcome > 0 THEN outcome ELSE 0)]
    IN  IF outcome = RAISES /\ ~strategies[k].guarded
        THEN [called EXCEPT !.status = "raised"]
        ELSE IF k = Len(strategies)
        THEN [called EXCEPT !.status = "returned"]
        ELSE [called EXCEPT !.next = k + 1]

(* search invokes its next strategy, which returns outcome items or raises *)
StepRun(run, outcome) ==
    LET k == run.next
        strategies == StrategyList(run.chain)
        called == [run EXCEPT !.invoked = Append(@, k), !.outcomes = Append(@, outcome)]
    IN  IF outcome > 0
        THEN [called EXCEPT !.status = "returned", !.items = StrategyItems(k, outcome)]
        ELSE IF outcome = RAISES /\ ~strategies[k].guarded
        THEN [called EXCEPT !.status = "raised"]
        ELSE IF k = Len(strategies)
        THEN [called EXCEPT !.status = "returned"]
        ELSE [called EXCEPT !.next = k + 1]

-----------------------------------------------------------------------------
(* simple_scraper_manager.py *)

(* self.scrapers after __init__: the scraper modules present in the        *)
(* repository (otodom_scraper is not)                                      *)
Registered == {"olx", "otomoto", "gumtree", "sprzedajemy", "allegro", "vinted",
               "emaito", "alejahandlowa", "ogloszenia-online"}
Marketplaces == Registered \cup {"otodom", "facebook"}

(* Python's results[start:end] *)
Slice(seq, start, end) ==
    LET n == Len(seq)
        norm(i) == IF i < 0 THEN (IF i + n < 0 THEN 0 ELSE i + n)
                   ELSE (IF i > n THEN n ELSE i)
        lo == norm(start)
        hi == norm(end)
    IN  IF lo >= hi THEN <<>> ELSE [j \in 1..(hi - lo) |-> seq[lo + j]]

PaginateFromZero(r, results) ==
    LET start_idx == r.page * r.items_per_page
        end_idx == start_idx + r.items_per_page
    IN  [r EXCEPT !.status = "returned",
                  !.results = IF start_idx < Len(results)
                              THEN Slice(results, start_idx, end_idx) ELSE <<>>,
                  !.total = Len(results),
                  !.has_more = end_idx < Len(results)]

(* lines 219-230: pagination of the scraper's list *)
Paginate(r, results) ==
    LET start_idx == (r.page - 1) * r.items_per_page
        end_idx == start_idx + r.items_per_page
    IN  [r EXCEPT !.status = "returned",
                  !.results = IF start_idx < Len(results)
                              THEN Slice(results, start_idx, end_idx) ELSE <<>>,
                  !.total = Len(results),
                  !.has_more = end_idx < Len(results)]

(* _generate_mock_results(..., count) *)
MockResults(count) == [j \in 1..count |-> [strategy |-> 0, index |-> j]]
MockCounts == mock_count_min..mock_count_max

(* lines 231-242: the except branch; lines 243-253: no scraper.            *)
(* _generate_mock_results calls filters.get and raises when filters is     *)
(* not a mapping.                                                          *)
Fallback(r, count, with_error) ==
    IF r.filters = "not_a_dict"
    THEN [r EXCEPT !.status = "raised"]
    ELSE [r EXCEPT !.status = "returned",
                   !.results = MockResults(count),
                   !.total = count,
                   !.has_more = FALSE,
                   !.has_error = with_error,
                   !.error = IF with_error THEN "message" ELSE "",
                   !.placeholder = TRUE]

FallbackOnError(r, count) == Fallback(r, count, TRUE)
FallbackNoScraper(r, count) == Fallback(r, count, FALSE)

Request(m, page, ipp, filters) ==
    [NoResponse EXCEPT !.status = "dispatched", !.marketplace = m, !.page = page,
                       !.items_per_page = ipp, !.filters = filters]

SearchIdle == response.status # "dispatched" /\ scraperRun.status # "running"

(* search(marketplace, keywords, filters, page, items_per_page) is called: *)
(* the registry lookup, then scraper.search up to its first strategy       *)
ManagerSearch(m, page, ipp, filters) ==
    /\ SearchIdle
    /\ IF m \in Registered
       THEN /\ response' = Request(m, page, ipp, filters)
            /\ scraperRun' = StartRun(m, filters)
       ELSE /\ \E count \in MockCounts :
                  response' = FallbackNoScraper(Request(m, page, ipp, filters), count)
            /\ scraperRun' = NoRun
    /\ UNCHANGED <<poolVars, fetchVars, failedVia, lastGot, observe, auxVars, raceVars, candidate, manager>>

(* a scraper's search called directly *)
ScraperSearch(chain, filters) ==
    /\ SearchIdle
    /\ scraperRun' = StartRun(chain, filters)
    /\ response' = NoResponse
    /\ UNCHANGED <<poolVars, fetchVars, failedVia, lastGot, observe, auxVars, raceVars, candidate, manager>>

(* the running search invokes its next strategy *)
StrategyStep(outcome) ==
    /\ scraperRun.status = "running"
    /\ scraperRun' = StepRun(scraperRun, outcome)
    /\ UNCHANGED <<poolVars, fetchVars, failedVia, lastGot, observe, auxVars, raceVars, response,
                   candidate, manager>>

ManagerReturnEmptyAsFailure ==
    /\ response.status = "dispatched"
    /\ scraperRun.status \in {"returned", "raised"}
    /\ IF scraperRun.status = "returned" /\ scraperRun.items # <<>>
       THEN response' = Paginate(response, scraperRun.items)
       ELSE \E count \in MockCounts : response' = FallbackOnError(response, count)
    /\ UNCHANGED <<poolVars, fetchVars, failedVia, lastGot, observe, auxVars, raceVars, scraperRun,
                   candidate, manager>>

(* scraper.search has returned or raised: the manager builds its response *)
ManagerReturn ==
    /\ response.status = "dispatched"
    /\ scraperRun.status \in {"returned", "raised"}
    /\ IF scraperRun.status = "returned"
       THEN response' = Paginate(response, scraperRun.items)
       ELSE \E count \in MockCounts : response' = FallbackOnError(response, count)
    /\ UNCHANGED <<poolVars, fetchVars, failedVia, lastGot, observe, auxVars, raceVars, scraperRun,
                   candidate, manager>>

NextSearch ==
    \/ \E m \in Marketplaces, page \in Pages, ipp \in PageSizes, filters \in FilterShapes :
          ManagerSearch(m, page, ipp, filters)
    \/ \E chain \in Registered \cup {"marketplace_scrapers.olx"}, filters \in FilterShapes :
          ScraperSearch(chain, filters)
    \/ \E outcome \in StrategyOutcomes : StrategyStep(outcome)
    \/ ManagerReturn

(* The scrapers and the search orchestrator *)
InitSearch == InitProxy /\ impl = "utils" /\ observe = {}
SpecSearch == InitSearch /\ [][NextSearch]_vars

-----------------------------------------------------------------------------
(* The pages of one result list, requested in turn *)

(* a client starts paging through a list of n items *)
PagerStart(n, ipp) ==
    /\ pager.status = "idle"
    /\ pager' = [status |-> "active", list |-> StrategyItems(1, n), items_per_page |-> ipp,
                 pages |-> <<>>]
    /\ UNCHANGED <<poolVars, fetchVars, failedVia, lastGot, observe, raceVars, searchVars,
                   notPager>>

(* a pagination whose slice runs one item further *)
PaginateOverlapping(r, results) ==
    LET start_idx == (r.page - 1) * r.items_per_page
        end_idx == start_idx + r.items_per_page
    IN  [r EXCEPT !.status = "returned",
                  !.results = IF start_idx < Len(results)
                              THEN Slice(results, start_idx, end_idx + 1) ELSE <<>>,
                  !.total = Len(results),
                  !.has_more = end_idx < Len(results)]

PagerFetchOverlapping ==
    /\ pager.status = "active"
    /\ Len(pager.pages) < MaxPage
    /\ LET r == PaginateOverlapping(Request("olx", Len(pager.pages) + 1, pager.items_per_page,
                                            "ok"), pager.list)
       IN  pager' = [pager EXCEPT !.pages = Append(@, [results |-> r.results,
                                                        has_more |-> r.has_more])]
    /\ UNCHANGED <<poolVars, fetchVars, failedVia, lastGot, observe, raceVars, searchVars,
                   notPager>>

(* the next page is requested: search(..., page, items_per_page) cuts the  *)
(* scraper's list as lines 219-230 do                                      *)
PagerFetch ==
    /\ pager.status = "active"
    /\ Len(pager.pages) < MaxPage
    /\ LET r == Paginate(Request("olx", Len(pager.pages) + 1, pager.items_per_page, "ok"),
                         pager.list)
       IN  pager' = [pager EXCEPT !.pages = Append(@, [results |-> r.results,
                                                        has_more |-> r.has_more])]
    /\ UNCHANGED <<poolVars, fetchVars, failedVia, lastGot, observe, raceVars, searchVars,
                   notPager>>

(* the client stops *)
PagerDone ==
    /\ pager.status = "active"
    /\ pager' = NoPager
    /\ UNCHANGED <<poolVars, fetchVars, failedVia, lastGot, observe, raceVars, searchVars,
                   notPager>>

(* the lengths of the lists paged through: those of the searches and the  *)
(* lists that fill one or two pages exactly                                *)
PagedSizes == ListSizes \cup {ipp * k : ipp \in PageSizes, k \in 1..2}

NextPager ==
    \/ /\ pager.status = "idle"
       /\ \E n \in PagedSizes, ipp \in PageSizes : PagerStart(n, ipp)
    \/ PagerFetch
    \/ PagerDone

InitPager == InitProxy /\ impl = "utils" /\ observe = {}
SpecPager == InitPager /\ [][NextPager]_vars

-----------------------------------------------------------------------------
(* routes.py: the monitor's interval and the next_update template filter.  *)
(* Times are minutes.                                                      *)

(* the 'interval' of the posted JSON; NULL: the key is absent *)
PostedIntervals == {NULL, 0 - 5, 0, 1, 5, 30, 1440, 2000}
(* monitor.last_run: None, or the utcnow() of an earlier check *)
LastRuns == {NULL, 0, 45}
(* datetime.utcnow() when the filter runs *)
Clock == {45, 60}
(* the earliest datetime: stepping below it raises OverflowError *)
datetime_min == 0 - MaxBack

(* data.get('interval', 30) *)
GetInterval(posted) == IF posted = NULL THEN default_interval ELSE posted

(* add_to_monitor: a Monitor is created with the posted interval; it is    *)
(* committed with the new item unless the item's URL is already monitored  *)
AddToMonitor(posted, existing_item) ==
    /\ monitor' = IF existing_item THEN monitor
                  ELSE [monitor EXCEPT !.exists = TRUE,
                                       !.interval_minutes = GetInterval(posted)]
    /\ UNCHANGED <<poolVars, fetchVars, failedVia, lastGot, observe, raceVars, searchVars,
                   notMonitor>>

(* update_monitor_settings: the interval is clamped to 5..1440 *)
UpdateMonitorSettings(posted) ==
    /\ monitor.exists
    /\ monitor' = [monitor EXCEPT
                      !.interval_minutes =
                          Max(min_interval, Min(max_interval, GetInterval(posted)))]
    /\ UNCHANGED <<poolVars, fetchVars, failedVia, lastGot, observe, raceVars, searchVars,
                   notMonitor>>

(* the monitor page renders next_update(monitor.last_run,                  *)
(* monitor.interval_minutes): lines 360-371, up to the loop                *)
NextUpdateCall(last_run, utcnow) ==
    /\ monitor.exists
    /\ monitor.pc = "idle"
    /\ last_run # NULL => last_run <= utcnow
    /\ monitor' = IF last_run = NULL
                  THEN [monitor EXCEPT !.pc = "not_scheduled"]
                  ELSE [monitor EXCEPT !.pc = "loop",
                                       !.interval = monitor.interval_minutes,
                                       !.now = utcnow,
                                       !.next_run = last_run + monitor.interval_minutes]
    /\ UNCHANGED <<poolVars, fetchVars, failedVia, lastGot, observe, raceVars, searchVars,
                   notMonitor>>

(* lines 374-377: one test of the loop condition, and one iteration (the   *)
(* iterations are counted modulo 2) or the return                          *)
NextUpdateLoop ==
    /\ monitor.pc = "loop"
    /\ monitor' = IF monitor.next_run < monitor.now
                  THEN IF monitor.next_run + monitor.interval < datetime_min
                       THEN [monitor EXCEPT !.pc = "raised"]
                       ELSE [monitor EXCEPT !.next_run = @ + monitor.interval,
                                            !.iterations = (@ + 1) % 2]
                  ELSE [monitor EXCEPT !.pc = "returned"]
    /\ UNCHANGED <<poolVars, fetchVars, failedVia, lastGot, observe, raceVars, searchVars,
                   notMonitor>>

(* the page has been rendered *)
NextUpdateDone ==
    /\ monitor.pc \in {"returned", "raised", "not_scheduled"}
    /\ monitor' = [monitor EXCEPT !.pc = "idle", !.interval = 0, !.now = 0, !.next_run = 0,
                                  !.iterations = 0]
    /\ UNCHANGED <<poolVars, fetchVars, failedVia, lastGot, observe, raceVars, searchVars,
                   notMonitor>>

NextMonitor ==
    \/ \E posted \in PostedIntervals, existing_item \in BOOLEAN :
          AddToMonitor(posted, existing_item)
    \/ \E posted \in PostedIntervals : UpdateMonitorSettings(posted)
    \/ \E last_run \in LastRuns, utcnow \in Clock : NextUpdateCall(last_run, utcnow)
    \/ NextUpdateLoop
    \/ NextUpdateDone

InitMonitor == InitProxy /\ impl = "utils" /\ observe = {}
SpecMonitor == InitMonitor /\ [][NextMonitor]_vars
(* the interpreter goes on executing a loop that has not ended *)
SpecMonitorFair == InitMonitor /\ [][NextMonitor]_vars /\ WF_vars(NextUpdateLoop)

-----------------------------------------------------------------------------
(* The scrapers' _passes_filters methods and the strategies' use of them *)

(* Text is a sequence of one-character strings.  The letter z-with-dot of  *)
(* allegro's condition word is written "z".                                *)
Unknown == <<"U", "n", "k", "n", "o", "w", "n">>
new == <<"n", "e", "w">>
used == <<"u", "s", "e", "d">>
nowe == <<"n", "o", "w", "e">>
uzywane == <<"u", "z", "y", "w", "a", "n", "e">>
New == <<"N", "e", "w">>
Used == <<"U", "s", "e", "d">>
opole == <<"o", "p", "o", "l", "e">>
Opole == <<"O", "p", "o", "l", "e">>
gdynia == <<"g", "d", "y", "n", "i", "a">>

(* str.lower() *)
lower_char(c) ==
    CASE c = "N" -> "n"
      [] c = "O" -> "o"
      [] c = "U" -> "u"
      [] c = "L" -> "l"
      [] c = "X" -> "x"
      [] c = "P" -> "p"
      [] c = "B" -> "b"
      [] OTHER -> c
lower(s) == [i \in DOMAIN s |-> lower_char(s[i])]

(* Python's  needle in hay  on strings *)
Contains(needle, hay) ==
    \E i \in 0..(Len(hay) - Len(needle)) : SubSeq(hay, i + 1, i + Len(needle)) = needle

(* the candidate items and the filters of the model; an absent or empty    *)
(* text filter is <<>>, an absent price bound is NULL                      *)
Prices == 0..MaxPrice
ItemLocations == {<<>>, Opole}
ItemConditions == {<<>>, Unknown, New, Used, nowe, uzywane}
FilterLocations == {<<>>, opole, gdynia}
FilterConditions == {<<>>, new, used}
Items == [price : Prices, location : ItemLocations, condition : ItemConditions]
Filters == [price_min : Prices \cup {NULL}, price_max : Prices \cup {NULL},
            location : FilterLocations, condition : FilterConditions]

(* the price clauses, the same in every _passes_filters *)
PriceRejects(item, filters) ==
    \/ filters.price_min # NULL /\ item.price < filters.price_min
    \/ filters.price_max # NULL /\ item.price > filters.price_max

(* the location clause; alejahandlowa and vinted have none *)
LocationRejects(scraper, item, filters) ==
    IF scraper \in {"alejahandlowa", "vinted"}
    THEN FALSE
    ELSE filters.location # <<>> /\ ~Contains(lower(filters.location), lower(item.location))

(* the condition clause of each scraper's _passes_filters *)
ConditionRejects(scraper, item, filters) ==
    CASE scraper = "olx" ->
            /\ filters.condition # <<>>
            /\ item.condition # Unknown
            /\ ~Contains(lower(filters.condition), lower(item.condition))
      [] scraper \in {"gumtree", "sprzedajemy"} ->
            /\ filters.condition # <<>>
            /\ item.condition # <<>>
            /\ item.condition # Unknown
            /\ ~Contains(lower(filters.condition), lower(item.condition))
      [] scraper = "marketplace_scrapers.olx" ->
            /\ filters.condition # <<>>
            /\ item.condition # <<>>
            /\ ~Contains(lower(filters.condition), lower(item.condition))
      [] scraper = "allegro" ->
            /\ filters.condition # <<>>
            /\ \/ filters.condition = new /\ item.condition # nowe
               \/ filters.condition = used /\ item.condition # uzywane
      [] scraper = "vinted" ->
            /\ filters.condition # <<>>
            /\ filters.condition = new
            /\ item.condition # New
      [] OTHER -> FALSE

(* _passes_filters(item, filters), for filters with the keys price_min,    *)
(* price_max, location and condition only                                  *)
passes_filters(scraper, item, filters) ==
    /\ ~PriceRejects(item, filters)
    /\ ~LocationRejects(scraper, item, filters)
    /\ ~ConditionRejects(scraper, item, filters)

(* marketplace_scrapers/olx_scraper.py _parse_search_page, lines 459-467:  *)
(* the checks written out in the loop instead of a _passes_filters call    *)
page_inline_filters(item, filters) ==
    /\ ~PriceRejects(item, filters)
    /\ ~(filters.location # <<>> /\ item.location # <<>>
         /\ ~Contains(lower(filters.location), lower(item.location)))

Scrapers == Registered \cup {"marketplace_scrapers.olx"}

(* the items a strategy can build: a field the strategy fills with a       *)
(* constant has that constant                                              *)
Candidates(scraper, strategy) ==
    CASE scraper = "marketplace_scrapers.olx" /\ strategy = "_parse_search_page" ->
            {i \in Items : i.condition = <<>>}
      [] scraper = "olx" /\ strategy \in {"_parse_with_trafilatura", "_parse_search_page"} ->
            {i \in Items : i.condition = Unknown}
      [] scraper = "gumtree" ->
            {i \in Items : i.condition = Unknown}
      [] OTHER -> Items

(* whether the strategy appends the candidate to its items; matches: the   *)
(* strategy's keyword test lets the candidate through                      *)
Includes(scraper, strategy, item, filters, matches) ==
    IF scraper = "marketplace_scrapers.olx" /\ strategy = "_parse_search_page"
    THEN matches /\ page_inline_filters(item, filters)
    ELSE matches /\ passes_filters(scraper, item, filters)

(* a strategy of a scraper's search builds one candidate item and decides  *)
(* whether to append it to the list search returns                         *)
Consider(scraper, k, item, filters, matches) ==
    LET strategy == StrategyList(scraper)[k].name
    IN  /\ item \in Candidates(scraper, strategy)
        /\ candidate' = [scraper |-> scraper, strategy |-> strategy, item |-> item,
                         filters |-> filters,
                         included |-> Includes(scraper, strategy, item, filters, matches)]
        /\ UNCHANGED <<poolVars, fetchVars, failedVia, lastGot, observe, auxVars, raceVars,
                       scraperRun, response, manager>>

(* the strategy's loop goes on to its next candidate *)
NextCandidate ==
    /\ candidate # NoCandidate
    /\ candidate' = NoCandidate
    /\ UNCHANGED <<poolVars, fetchVars, failedVia, lastGot, observe, auxVars, raceVars,
                   scraperRun, response, manager>>

NextFilter ==
    \/ /\ candidate = NoCandidate
       /\ \E scraper \in Scrapers, item \in Items, filters \in Filters, matches \in BOOLEAN :
             \E k \in DOMAIN StrategyList(scraper) :
                 Consider(scraper, k, item, filters, matches)
    \/ NextCandidate

(* The filter stage of the scrapers *)
InitFilter == InitProxy /\ impl = "utils" /\ observe = {}
SpecFilter == InitFilter /\ [][NextFilter]_vars

-----------------------------------------------------------------------------
(* Repeated evaluation of _passes_filters on one item and one filter set *)

(* a caller holds an item and the filters *)
EvalStart(scraper, item, filters) ==
    /\ evaluation.status = "idle"
    /\ evaluation' = [status |-> "active", scraper |-> scraper, item |-> item,
                      filters |-> filters, results |-> <<>>]
    /\ UNCHANGED <<poolVars, fetchVars, failedVia, lastGot, observe, raceVars, searchVars,
                   notEval>>

(* a variant that writes the lowercased condition back into the item *)
EvaluateNormalising ==
    /\ evaluation.status = "active"
    /\ Len(evaluation.results) < 2
    /\ evaluation' = [evaluation EXCEPT
                         !.item.condition = lower(@),
                         !.results = Append(@, passes_filters(evaluation.scraper,
                                                              evaluation.item,
                                                              evaluation.filters))]
    /\ UNCHANGED <<poolVars, fetchVars, failedVia, lastGot, observe, raceVars, searchVars,
                   notEval>>

(* self._passes_filters(item, filters): the method reads the two           *)
(* dictionaries into locals and returns a boolean; it assigns to no key    *)
(* and to no attribute of the scraper                                      *)
Evaluate ==
    /\ evaluation.status = "active"
    /\ Len(evaluation.results) < 2
    /\ evaluation' = [evaluation EXCEPT
                         !.results = Append(@, passes_filters(evaluation.scraper,
                                                              evaluation.item,
                                                              evaluation.filters))]
    /\ UNCHANGED <<poolVars, fetchVars, failedVia, lastGot, observe, raceVars, searchVars,
                   notEval>>

(* the caller drops the item *)
EvalDone ==
    /\ evaluation.status = "active"
    /\ evaluation' = NoEvaluation
    /\ UNCHANGED <<poolVars, fetchVars, failedVia, lastGot, observe, raceVars, searchVars,
                   notEval>>

NextEval ==
    \/ \E p \in ProxyIds : AddProxy(p)
    \/ /\ evaluation.status = "idle"
       /\ \E scraper \in Scrapers, item \in Items, filters \in Filters :
             EvalStart(scraper, item, filters)
    \/ Evaluate
    \/ EvalDone

InitEval == InitProxy /\ impl = "scraper" /\ max_failures = default_max_failures /\ observe = {}
SpecEval == InitEval /\ [][NextEval]_vars

-----------------------------------------------------------------------------
(* simple_scraper_manager.py: the imports of the scraper classes and       *)
(* SimpleScraperManager.__init__                                           *)

(* the scraper classes whose constructor does more than BaseScraper's:     *)
(* AllegroScraper.__init__ calls _setup_selenium, which imports selenium   *)
(* and webdriver_manager outside its try block                             *)
CanFailToInstantiate == {"allegro"}

(* the process starts: importable are the scraper modules whose import     *)
(* succeeds (the others raise ImportError and leave the class None),       *)
(* failing the classes whose constructor raises in this environment        *)
Construct(importable, failing) ==
    /\ manager.status = "none"
    /\ manager' = IF importable \cap failing # {}
                  THEN [NoManager EXCEPT !.status = "raised", !.importable = importable,
                                         !.failing = failing]
                  ELSE [NoManager EXCEPT !.status = "constructed", !.scrapers = importable,
                                         !.importable = importable, !.failing = failing]
    /\ UNCHANGED <<poolVars, fetchVars, failedVia, lastGot, observe, auxVars, raceVars,
                   scraperRun, response, candidate>>

(* get_scraper(marketplace) *)
GetScraper(m) ==
    /\ manager.status = "constructed"
    /\ manager' = [manager EXCEPT !.asked = m,
                                  !.got = IF m \in manager.scrapers THEN m ELSE "None"]
    /\ UNCHANGED <<poolVars, fetchVars, failedVia, lastGot, observe, auxVars, raceVars,
                   scraperRun, response, candidate>>

(* the process ends *)
Exit ==
    /\ manager.status # "none"
    /\ manager' = NoManager
    /\ UNCHANGED <<poolVars, fetchVars, failedVia, lastGot, observe, auxVars, raceVars,
                   scraperRun, response, candidate>>

NextRegistry ==
    \/ \E importable \in SUBSET Registered, failing \in SUBSET CanFailToInstantiate :
          Construct(importable, failing)
    \/ \E m \in Marketplaces : GetScraper(m)
    \/ Exit

(* The source registry *)
InitRegistry == InitProxy /\ impl = "utils" /\ observe = {}
SpecRegistry == InitRegistry /\ [][NextRegistry]_vars

-----------------------------------------------------------------------------
(* attached_assets/routes.py: search_items, the search across marketplaces *)

allegro == <<"a", "l", "l", "e", "g", "r", "o">>
olx == <<"o", "l", "x">>
OLX == <<"O", "L", "X">>
vinted == <<"v", "i", "n", "t", "e", "d">>
facebook == <<"f", "a", "c", "e", "b", "o", "o", "k">>
otomoto == <<"o", "t", "o", "m", "o", "t", "o">>

(* the keys of the scrapers dictionary search_items builds *)
FanOutScrapers == {allegro, olx, vinted, facebook}
(* the names a request may list, in any order, with repetitions *)
RequestedNames == {olx, OLX, vinted, otomoto}
RECURSIVE SeqsUpTo(_, _)
SeqsUpTo(S, n) ==
    IF n = 0 THEN {<<>>}
    ELSE LET shorter == SeqsUpTo(S, n - 1)
         IN  shorter \cup {Append(q, x) : q \in {r \in shorter : Len(r) = n - 1}, x \in S}
Requests == SeqsUpTo(RequestedNames, MaxMarkets)

SKIPPED == -2
(* the items the scraper at position k of the request returns *)
FanOutItems(k, n) == [j \in 1..n |-> [position |-> k, index |-> j]]

(* lines 400-428: the request is read and the scrapers are constructed *)
SearchItems(marketplaces) ==
    /\ fanout.status # "running"
    /\ fanout' = [NoFanOut EXCEPT !.status = "running", !.marketplaces = marketplaces]
    /\ UNCHANGED <<poolVars, fetchVars, failedVia, lastGot, observe, raceVars, searchVars,
                   notFanOut>>

FanOutStepAborting(outcome) ==
    LET k == fanout.next
        known == lower(fanout.marketplaces[k]) \in FanOutScrapers
    IN  /\ fanout.status = "running"
        /\ k <= Len(fanout.marketplaces)
        /\ known <=> outcome # SKIPPED
        /\ fanout' = [fanout EXCEPT
                         !.status = IF outcome = RAISES THEN "raised" ELSE @,
                         !.next = k + 1,
                         !.outcomes = Append(@, outcome),
                         !.results = IF outcome > 0 THEN @ \o FanOutItems(k, outcome) ELSE @]
        /\ UNCHANGED <<poolVars, fetchVars, failedVia, lastGot, observe, raceVars, searchVars,
                   notFanOut>>

(* lines 430-437: one iteration of the loop over the requested             *)
(* marketplaces; outcome is what scraper.search does, SKIPPED when the     *)
(* lower-cased name has no scraper                                         *)
FanOutStep(outcome) ==
    LET k == fanout.next
        known == lower(fanout.marketplaces[k]) \in FanOutScrapers
    IN  /\ fanout.status = "running"
        /\ k <= Len(fanout.marketplaces)
        /\ known <=> outcome # SKIPPED
        /\ fanout' = [fanout EXCEPT
                         !.next = k + 1,
                         !.outcomes = Append(@, outcome),
                         !.results = IF outcome > 0 THEN @ \o FanOutItems(k, outcome) ELSE @]
        /\ UNCHANGED <<poolVars, fetchVars, failedVia, lastGot, observe, raceVars, searchVars,
                   notFanOut>>

(* line 439: return jsonify(results) *)
FanOutReturn ==
    /\ fanout.status = "running"
    /\ fanout.next > Len(fanout.marketplaces)
    /\ fanout' = [fanout EXCEPT !.status = "returned"]
    /\ UNCHANGED <<poolVars, fetchVars, failedVia, lastGot, observe, raceVars, searchVars,
                   notFanOut>>

NextFanOut ==
    \/ \E marketplaces \in Requests : SearchItems(marketplaces)
    \/ \E outcome \in (0..MaxItems) \cup {RAISES, SKIPPED} : FanOutStep(outcome)
    \/ FanOutReturn

(* The search across marketplaces *)
InitFanOut == InitProxy /\ impl = "scraper" /\ max_failures = default_max_failures /\ observe = {}
SpecFanOut == InitFanOut /\ [][NextFanOut]_vars

-----------------------------------------------------------------------------
(* scraper/proxy_manager.py: verify_proxies step by step, with the worker  *)
(* threads of its ThreadPoolExecutor and the lru_cache of test_proxy       *)

(* lines 222-238: the active rows are read and one test_proxy call per row *)
(* is submitted to the executor; with no active row the call returns       *)
VerifyStart ==
    /\ impl = "scraper"
    /\ verifyRun.status # "running"
    /\ LET active == {p \in ProxyIds : proxies[p].exists /\ proxies[p].is_active}
       IN  verifyRun' = [NoVerify EXCEPT
                            !.status = IF active = {} THEN "returned" ELSE "running",
                            !.submitted = active, !.pending = active]
    /\ UNCHANGED <<poolVars, fetchVars, failedVia, lastGot, observe, raceVars, searchVars,
                   testCache, notVerify>>

(* lines 171-211: a worker's test_proxy(proxy, test_url) call ends.  The   *)
(* lru_cache wrapper answers from the cache when it holds an entry for the *)
(* arguments; otherwise the request is made (reachable: its outcome) and   *)
(* the result is cached                                                    *)
TestProxy(p, reachable) ==
    /\ verifyRun.status = "running"
    /\ p \in verifyRun.pending
    /\ LET hit == testCache[p] # "none"
           is_working == IF hit THEN testCache[p] = "working" ELSE reachable
       IN  /\ verifyRun' = [verifyRun EXCEPT
                               !.pending = @ \ {p},
                               !.completed = @ \cup {p},
                               !.is_working = IF is_working THEN @ \cup {p} ELSE @,
                               !.tested = IF hit THEN @ ELSE @ \cup {p}]
           /\ testCache' = IF hit THEN testCache
                           ELSE [testCache EXCEPT ![p] = IF reachable THEN "working"
                                                         ELSE "failed"]
    /\ UNCHANGED <<poolVars, fetchVars, failedVia, lastGot, observe, raceVars, searchVars,
                   notVerify>>

(* lines 241-255: as_completed yields a finished future; the proxy is      *)
(* appended to its list and marked                                         *)
VerifyCollect(p) ==
    /\ verifyRun.status = "running"
    /\ p \in verifyRun.completed
    /\ LET ok == p \in verifyRun.is_working
       IN  /\ verifyRun' = [verifyRun EXCEPT
                               !.completed = @ \ {p},
                               !.working = IF ok THEN @ \cup {p} ELSE @,
                               !.failed = IF ok THEN @ ELSE @ \cup {p},
                               !.successes[p] = IF ok THEN @ + 1 ELSE @,
                               !.failures[p] = IF ok THEN @ ELSE @ + 1]
           /\ proxies' = IF ok THEN mark_success(proxies, p, now)
                         ELSE mark_failure(proxies, p, now)
    /\ UNCHANGED <<impl, max_failures, local_proxies, now, fetchVars, failedVia, lastGot,
                   observe, raceVars, searchVars, testCache, notVerify>>

VerifyReturnEarly ==
    /\ verifyRun.status = "running"
    /\ verifyRun.completed = {}
    /\ verifyRun' = [verifyRun EXCEPT !.status = "returned"]
    /\ UNCHANGED <<poolVars, fetchVars, failedVia, lastGot, observe, raceVars, searchVars,
                   testCache, notVerify>>

(* lines 257-263: as_completed is exhausted, the with block has joined the *)
(* workers, the result is returned                                         *)
VerifyReturn ==
    /\ verifyRun.status = "running"
    /\ verifyRun.pending = {} /\ verifyRun.completed = {}
    /\ verifyRun' = [verifyRun EXCEPT !.status = "returned"]
    /\ UNCHANGED <<poolVars, fetchVars, failedVia, lastGot, observe, raceVars, searchVars,
                   testCache, notVerify>>

(* the session ends: the next query builds new Proxy objects, for which    *)
(* the cache holds no entry                                                *)
NewSession ==
    /\ verifyRun.status # "running"
    /\ testCache # [p \in ProxyIds |-> "none"]
    /\ testCache' = [p \in ProxyIds |-> "none"]
    /\ UNCHANGED <<poolVars, fetchVars, failedVia, lastGot, observe, raceVars, searchVars,
                   verifyRun, notVerify>>

NextVerify ==
    \/ \E p \in ProxyIds : AddProxy(p)
    \/ VerifyStart
    \/ \E p \in ProxyIds, reachable \in BOOLEAN : TestProxy(p, reachable)
    \/ \E p \in ProxyIds : VerifyCollect(p)
    \/ VerifyReturn
    \/ NewSession
    \/ Tick

(* Bulk verification of the proxies *)
InitVerify == InitProxy /\ impl = "scraper" /\ observe = {}
SpecVerify == InitVerify /\ [][NextVerify]_vars

-----------------------------------------------------------------------------
(* utils/text_matching.py *)

Letters == {"a", "b", "d", "e", "h", "i", "k", "l", "n", "o", "p", "r", "s", "t", "u",
            "w", "x", "y", "z"}
Digits == {"0", "1", "2", "3", "4", "5", "6", "7", "8", "9"}
(* \w and \s of the regular expressions, on the characters of the model *)
IsWordChar(c) == c \in Letters \cup Digits \cup {"_"}
IsSpace(c) == c = " "
KeepChar(c) == IsWordChar(c) \/ IsSpace(c)

RECURSIVE CollapseSpaces(_)
(* re.sub(r'\s+', ' ', text) *)
CollapseSpaces(s) ==
    IF Len(s) <= 1 THEN s
    ELSE IF IsSpace(s[1]) /\ IsSpace(s[2]) THEN CollapseSpaces(Tail(s))
    ELSE <<s[1]>> \o CollapseSpaces(Tail(s))

(* str.strip() *)
Strip(s) ==
    LET inner == {i \in DOMAIN s : ~IsSpace(s[i])}
    IN  IF inner = {} THEN <<>>
        ELSE SubSeq(s, CHOOSE i \in inner : \A j \in inner : i <= j,
                       CHOOSE i \in inner : \A j \in inner : i >= j)

(* clean_text(text), lines 7-17 *)
clean_text(text) ==
    IF text = <<>> THEN <<>>
    ELSE Strip(CollapseSpaces(SelectSeq(lower(text), KeepChar)))

NonEmpty(w) == w # <<>>
(* str.split() *)
Words(s) == SelectSeq(Split(s, " "), NonEmpty)

(* difflib.SequenceMatcher.find_longest_match on a[alo..ahi], b[blo..bhi]  *)
(* (no junk): the longest common block, the earliest in a among the        *)
(* longest, the earliest in b among those; <<0, 0, 0>> when there is none  *)
find_longest_match(a, b, alo, ahi, blo, bhi) ==
    LET blocks == {t \in (alo..ahi) \X (blo..bhi) \X (1..(ahi - alo + 1)) :
                      /\ t[1] + t[3] - 1 <= ahi
                      /\ t[2] + t[3] - 1 <= bhi
                      /\ \A d \in 0..(t[3] - 1) : a[t[1] + d] = b[t[2] + d]}
        better(t, u) == \/ t[3] > u[3]
                        \/ t[3] = u[3] /\ t[1] < u[1]
                        \/ t[3] = u[3] /\ t[1] = u[1] /\ t[2] <= u[2]
    IN  IF blocks = {} THEN <<0, 0, 0>>
        ELSE CHOOSE t \in blocks : \A u \in blocks : better(t, u)

RECURSIVE MatchCount(_, _, _, _, _, _)
(* the total size of get_matching_blocks *)
MatchCount(a, b, alo, ahi, blo, bhi) ==
    IF alo > ahi \/ blo > bhi THEN 0
    ELSE LET m == find_longest_match(a, b, alo, ahi, blo, bhi)
         IN  IF m[3] = 0 THEN 0
             ELSE m[3] + MatchCount(a, b, alo, m[1] - 1, blo, m[2] - 1)
                       + MatchCount(a, b, m[1] + m[3], ahi, m[2] + m[3], bhi)

(* SequenceMatcher(None, a, b).ratio() >= threshold, the threshold in      *)
(* hundredths: ratio = 2.0 * matches / (len(a) + len(b)), 1.0 for two      *)
(* empty sequences                                                         *)
RatioAtLeast(a, b, hundredths) ==
    LET total == Len(a) + Len(b)
    IN  IF total = 0 THEN 100 >= hundredths
        ELSE 200 * MatchCount(a, b, 1, Len(a), 1, Len(b)) >= hundredths * total

(* the body of the loop of fuzzy_match_keywords for one keyword *)
KeywordMatches(text_clean, keyword, hundredths) ==
    LET keyword_clean == clean_text(keyword)
    IN  /\ keyword_clean # <<>>
        /\ \/ Contains(keyword_clean, text_clean)
           \/ /\ \E i \in DOMAIN keyword_clean : keyword_clean[i] = " "
              /\ RatioAtLeast(text_clean, keyword_clean, hundredths)
           \/ /\ \A i \in DOMAIN keyword_clean : keyword_clean[i] # " "
              /\ \E k \in DOMAIN Words(text_clean) :
                    RatioAtLeast(Words(text_clean)[k], keyword_clean, hundredths)

(* fuzzy_match_keywords(text, keywords, threshold), lines 36-79 *)
fuzzy_match_keywords(text, keywords, hundredths) ==
    IF text = <<>> \/ keywords = <<>> THEN FALSE
    ELSE \E k \in DOMAIN keywords : KeywordMatches(clean_text(text), keywords[k], hundredths)

(* the thresholds, in hundredths: the default of the function (0.8) and    *)
(* the argument of its call in marketplace_scrapers/olx_scraper.py         *)
default_threshold == 80
api_threshold == 7000
ThresholdAt(site) == IF site = "_parse_with_api" THEN api_threshold ELSE default_threshold
MatchSites == {"_parse_with_api", "default"}

Titles == {<<"i", "P", "h", "o", "n", "e", " ", "1", "2", "!">>,
           <<"i", "p", "h", "o", "n", " ", " ", "1", "2">>,
           <<"i", "p", "h", "n", "e", " ", "1", "2">>,
           <<"B", "i", "u", "r", "k", "o">>,
           <<>>}
KeywordLists == {<<>>,
                 << <<"i", "p", "h", "o", "n", "e">> >>,
                 << <<"i", "P", "h", "o", "n", "e", " ", "1", "2">> >>,
                 << <<"r", "o", "w", "e", "r">> >>,
                 << <<"!">>, <<"r", "o", "w", "e", "r">>, <<"i", "p", "h", "o", "n", "e">> >>}

(* a call fuzzy_match_keywords(title, keywords, threshold) from site *)
FuzzyMatch(site, title, keywords) ==
    /\ textCall' = [NoTextCall EXCEPT
                       !.fn = "fuzzy_match_keywords", !.site = site, !.text = title,
                       !.keywords = keywords, !.threshold = ThresholdAt(site),
                       !.result = fuzzy_match_keywords(title, keywords, ThresholdAt(site))]
    /\ UNCHANGED <<poolVars, fetchVars, failedVia, lastGot, observe, raceVars, searchVars,
                   notText>>

(* ---- Price parsing ----------------------------------------------------- *)
(* characters outside ASCII, each written as one token *)
nbsp == "nbsp"
l_stroke == "l/"
euro_sign == "euro"
pound_sign == "pound"

(* \s and \d of the price patterns *)
IsWhitespace(c) == c \in {" ", nbsp}
IsDigit(c) == c \in Digits
IsDigitOrSpace(c) == IsDigit(c) \/ IsWhitespace(c)

(* the last position of the longest run of characters satisfying P that   *)
(* starts at i (i - 1 when the run is empty): a greedy P*                  *)
RunEnd(s, i, P(_)) ==
    CHOOSE j \in (i - 1)..Len(s) :
        /\ \A x \in i..j : P(s[x])
        /\ j = Len(s) \/ ~P(s[j + 1])

FirstDigit(s) ==
    IF \E i \in 1..Len(s) : IsDigit(s[i])
    THEN CHOOSE i \in 1..Len(s) : IsDigit(s[i]) /\ \A x \in 1..(i - 1) : ~IsDigit(s[x])
    ELSE 0

NoMatch == <<>>

(* group(1) of the price pattern of get_item_details: a run of digits and *)
(* spaces, then only a comma opens the decimals                            *)
CommaGroupEnd(s, i) ==
    LET r == RunEnd(s, i, IsDigitOrSpace)
    IN  IF r < Len(s) /\ s[r + 1] = "," THEN RunEnd(s, r + 2, IsDigit) ELSE r
CommaPattern(s) ==
    LET i == FirstDigit(s)
    IN  IF i = 0 THEN NoMatch ELSE SubSeq(s, i, CommaGroupEnd(s, i))

(* does the alternative with decimals match after the run ending at r:    *)
(* a comma or a point, then a digit                                        *)
HasDecimals(s, r) == r + 2 <= Len(s) /\ s[r + 1] \in {",", "."} /\ IsDigit(s[r + 2])

(* group(1) of number_pattern: the alternative with decimals, else the    *)
(* run of digits and spaces                                                *)
DecimalGroupEnd(s, i) ==
    LET r == RunEnd(s, i, IsDigitOrSpace)
    IN  IF HasDecimals(s, r) THEN RunEnd(s, r + 2, IsDigit) ELSE r
NumberPattern(s) ==
    LET i == FirstDigit(s)
    IN  IF i = 0 THEN NoMatch ELSE SubSeq(s, i, DecimalGroupEnd(s, i))

CurrencySymbols == {"z", l_stroke, euro_sign, "$", pound_sign}
CurrencyCodes == {<<"P", "L", "N">>, <<"E", "U", "R">>, <<"U", "S", "D">>, <<"G", "B", "P">>}
(* group(2) of price_pattern matched at position p (a symbol, else a      *)
(* code), <<>> when it does not match                                      *)
CurrencyAt(s, p) ==
    IF p > Len(s) THEN <<>>
    ELSE IF s[p] \in CurrencySymbols THEN <<s[p]>>
    ELSE IF p + 2 <= Len(s) /\ SubSeq(s, p, p + 2) \in CurrencyCodes THEN SubSeq(s, p, p + 2)
    ELSE <<>>

(* the end of group(1) when the pattern with a currency matches at the     *)
(* digit at i, 0 when it does not: the decimal alternative first, then     *)
(* the whole run of digits and spaces                                      *)
PricedGroupEnd(s, i) ==
    LET r == RunEnd(s, i, IsDigitOrSpace)
        d == RunEnd(s, r + 2, IsDigit)
    IN  IF HasDecimals(s, r) /\ CurrencyAt(s, RunEnd(s, d + 1, IsWhitespace) + 1) # <<>>
        THEN d
        ELSE IF CurrencyAt(s, r + 1) # <<>> THEN r
        ELSE 0
(* re.search(price_pattern, text): the leftmost start that matches *)
PricedMatch(s) ==
    LET starts == {i \in 1..Len(s) : IsDigit(s[i]) /\ PricedGroupEnd(s, i) # 0}
    IN  IF starts = {} THEN NoMatch
        ELSE LET i == CHOOSE x \in starts : \A y \in starts : x <= y
                 e == PricedGroupEnd(s, i)
             IN  [group |-> SubSeq(s, i, e),
                  currency |-> CurrencyAt(s, RunEnd(s, e + 1, IsWhitespace) + 1)]

RECURSIVE Replace(_, _, _)
(* str.replace(old, by) for one character *)
Replace(s, old, by) ==
    IF s = <<>> THEN <<>>
    ELSE (IF s[1] = old THEN by ELSE <<s[1]>>) \o Replace(Tail(s), old, by)
(* match.group(1).replace(" ", "").replace(",", ".") *)
price_str(group) == Replace(Replace(group, " ", <<>>), ",", <<".">>)

DigitSeq == <<"0", "1", "2", "3", "4", "5", "6", "7", "8", "9">>
DigitValue(c) == (CHOOSE k \in 1..10 : DigitSeq[k] = c) - 1
RECURSIVE ToNumber(_)
ToNumber(ds) ==
    IF ds = <<>> THEN 0 ELSE ToNumber(SubSeq(ds, 1, Len(ds) - 1)) * 10 + DigitValue(ds[Len(ds)])
(* the value of the decimals, in hundredths (the texts have at most two) *)
Hundredths(ds) ==
    IF ds = <<>> THEN 0
    ELSE IF Len(ds) = 1 THEN DigitValue(ds[1]) * 10
    ELSE DigitValue(ds[1]) * 10 + DigitValue(ds[2])

(* float(s), in hundredths: whitespace around the number is ignored, and   *)
(* anything but digits with at most one point raises ValueError            *)
float(s) ==
    LET a == RunEnd(s, 1, IsWhitespace) + 1
        t == SubSeq(s, a, Len(s))
        i == RunEnd(t, 1, IsDigit)
        f == IF i < Len(t) /\ t[i + 1] = "." THEN RunEnd(t, i + 2, IsDigit) ELSE i
        z == RunEnd(t, f + 1, IsWhitespace)
    IN  IF z = Len(t) /\ (i >= 1 \/ f >= i + 2)
        THEN ToNumber(SubSeq(t, 1, i)) * 100 + Hundredths(SubSeq(t, i + 2, f))
        ELSE RAISES

NoPrice == [price |-> NULL, currency |-> "None"]
Currency(currency_str) ==
    IF currency_str \in {<<euro_sign>>, <<"E", "U", "R">>} THEN "EUR"
    ELSE IF currency_str \in {<<"$">>, <<"U", "S", "D">>} THEN "USD"
    ELSE IF currency_str \in {<<pound_sign>>, <<"G", "B", "P">>} THEN "GBP"
    ELSE "PLN"

(* utils.text_matching.extract_price *)
extract_price(text) ==
    IF text = <<>> THEN NoPrice
    ELSE LET m == PricedMatch(text)
             n == NumberPattern(text)
         IN  IF m # NoMatch
             THEN IF float(price_str(m.group)) = RAISES THEN NoPrice
                  ELSE [price |-> float(price_str(m.group)), currency |-> Currency(m.currency)]
             ELSE IF n # NoMatch
             THEN IF float(price_str(n)) = RAISES THEN NoPrice
                  ELSE [price |-> float(price_str(n)), currency |-> "PLN"]
             ELSE NoPrice

(* the price of AllegroScraper.get_item_details, from the text of the     *)
(* .price element                                                          *)
details_price(price_text) ==
    LET m == CommaPattern(price_text)
    IN  [price |-> IF m = NoMatch \/ float(price_str(m)) = RAISES THEN 0
                   ELSE float(price_str(m)),
         currency |-> "PLN"]

zloty == <<" ", "z", l_stroke>>
RECURSIVE Join(_)
(* the groups of an integer, separated by spaces *)
Join(groups) ==
    IF Len(groups) = 1 THEN groups[1] ELSE groups[1] \o <<" ">> \o Join(Tail(groups))
RECURSIVE Flatten(_)
Flatten(groups) == IF groups = <<>> THEN <<>> ELSE groups[1] \o Flatten(Tail(groups))

IntegerParts == {<< <<"0">> >>, << <<"1", "2">> >>, << <<"1">>, <<"2", "3", "4">> >>}
Separators == {",", "."}
Decimals == {<<"5">>, <<"5", "0">>, <<"0", "5">>}
(* "<int>[.,]<int> zl" *)
PriceText(int, sep, dec) == Join(int) \o <<sep>> \o dec \o zloty
PriceTexts ==
    {PriceText(int, sep, dec) : int \in IntegerParts, sep \in Separators, dec \in Decimals}
        \cup {Join(int) \o zloty : int \in IntegerParts}
        \cup {Join(int) \o <<",">> \o dec : int \in IntegerParts, dec \in {<<"5", "0">>}}
        \cup {<<"1", nbsp, "2", "3", "4", " ", "z", l_stroke>>,
              <<"7", " ", "E", "U", "R">>,
              <<"z", "a", " ", "d", "a", "r", "m", "o">>,
              <<"z", l_stroke>>,
              <<>>}
PriceSites == {"extract_price", "get_item_details"}

(* a call of one of the two price parsers on a text *)
ParsePrice(site, text) ==
    /\ textCall' = [NoTextCall EXCEPT
                       !.fn = "parse_price", !.site = site, !.text = text,
                       !.price = IF site = "extract_price" THEN extract_price(text).price
                                 ELSE details_price(Strip(text)).price,
                       !.currency = IF site = "extract_price" THEN extract_price(text).currency
                                    ELSE details_price(Strip(text)).currency]
    /\ UNCHANGED <<poolVars, fetchVars, failedVia, lastGot, observe, raceVars, searchVars,
                   notText>>

(* the call has returned *)
TextReturn ==
    /\ textCall # NoTextCall
    /\ textCall' = NoTextCall
    /\ UNCHANGED <<poolVars, fetchVars, failedVia, lastGot, observe, raceVars, searchVars,
                   notText>>

NextText ==
    \/ /\ textCall = NoTextCall
       /\ \E site \in MatchSites, title \in Titles, keywords \in KeywordLists :
             FuzzyMatch(site, title, keywords)
    \/ /\ textCall = NoTextCall
       /\ \E site \in PriceSites, text \in PriceTexts : ParsePrice(site, text)
    \/ TextReturn

(* The text functions *)
InitText == InitProxy /\ impl = "utils" /\ observe = {}
SpecText == InitText /\ [][NextText]_vars

-----------------------------------------------------------------------------
(* Building an item from a source payload *)

UnknownTitle == <<"U", "n", "k", "n", "o", "w", "n", " ", "T", "i", "t", "l", "e">>
UnknownItem == <<"U", "n", "k", "n", "o", "w", "n", " ", "I", "t", "e", "m">>
LikeNew == <<"L", "i", "k", "e", " ", "n", "e", "w">>
zero_zloty == <<"0">> \o zloty
iphone == <<"i", "p", "h", "o", "n", "e">>

(* str.upper() on the letters of the model, and str.capitalize() *)
upper_char(c) ==
    CASE c = "n" -> "N"
      [] c = "d" -> "D"
      [] c = "i" -> "I"
      [] c = "u" -> "U"
      [] OTHER -> c
capitalize(s) == IF s = <<>> THEN <<>> ELSE <<upper_char(s[1])>> \o lower(Tail(s))

(* an element of the page with its text *)
Element(text) == [present |-> TRUE, text |-> text]
(* text of the first selector whose element exists and has text, else the default *)
TextOr(element, default) ==
    IF element.present /\ Strip(element.text) # <<>> THEN Strip(element.text) ELSE default
(* element.text.strip() if element else default *)
StripOr(element, default) == IF element.present THEN Strip(element.text) ELSE default

(* a URL is its parts between slashes, a part its words between hyphens *)
HasIphone(part) == \E k \in 1..Len(part) : Contains(iphone, lower(part[k]))
TitleFromUrl(url) ==
    LET k == CHOOSE x \in 1..Len(url) : HasIphone(url[x]) /\ \A y \in 1..(x - 1) : ~HasIphone(url[y])
    IN  Join([w \in 1..Len(url[k]) |-> capitalize(url[k][w])])

(* scraper.olx_scraper.OLXScraper.get_item_details on the parsed page *)
olx_get_item_details(page) ==
    LET title == TextOr(page.title, UnknownTitle)
    IN  [title |-> IF title = UnknownTitle /\ \E k \in 1..Len(page.url) : HasIphone(page.url[k])
                   THEN TitleFromUrl(page.url) ELSE title,
         price |-> details_price(TextOr(page.price, zero_zloty)).price,
         currency |-> "PLN",
         seller_name |-> TextOr(page.seller, Unknown),
         condition |-> TextOr(page.condition, Unknown)]

(* AllegroScraper.get_item_details on a page without structured data *)
allegro_get_item_details(page) ==
    LET condition_text == lower(Strip(page.condition.text))
    IN  [title |-> StripOr(page.title, UnknownItem),
         price |-> details_price(StripOr(page.price, zero_zloty)).price,
         currency |-> "PLN",
         seller_name |-> StripOr(page.seller, Unknown),
         condition |-> IF ~page.condition.present THEN Unknown
                       ELSE IF Contains(<<"n", "o", "w">>, condition_text) THEN nowe
                       ELSE IF Contains(<<"u", "z", "y">>, condition_text) THEN uzywane
                       ELSE condition_text]

(* VintedScraper._extract_condition; the container's text is the text of its elements *)
vinted_extract_condition(page) ==
    LET condition_text == lower(Strip(page.condition.text))
        container_text == lower(page.title.text \o <<" ">> \o page.price.text \o <<" ">>
                                    \o page.condition.text)
    IN  IF page.condition.present
        THEN IF Contains(<<"n", "o", "w">>, condition_text) THEN New
             ELSE IF Contains(<<"i", "d", "e", "a", "l", "n">>, condition_text) THEN LikeNew
             ELSE capitalize(condition_text)
        ELSE IF Contains(<<"n", "o", "w", "y">>, container_text)
                    \/ Contains(nowe, container_text) \/ Contains(new, container_text)
        THEN New
        ELSE IF Contains(<<"i", "d", "e", "a", "l", "n", "y">>, container_text)
                    \/ Contains(lower(LikeNew), container_text)
        THEN LikeNew
        ELSE Used

(* the item VintedScraper._parse_with_bs4 builds from a listing container *)
vinted_item(page) ==
    [title |-> StripOr(page.title, UnknownItem),
     price |-> details_price(StripOr(page.price, zero_zloty)).price,
     currency |-> "PLN",
     seller_name |-> Unknown,
     condition |-> vinted_extract_condition(page)]

Builders == {"OLXScraper.get_item_details", "AllegroScraper.get_item_details",
             "VintedScraper._parse_with_bs4"}
TitleElements == {Absent, Element(<<>>), Element(<<"B", "i", "u", "r", "k", "o", " ">>),
                  Element(<<"n", "o", "w", "y">>)}
PriceElements == {Absent, Element(<<>>), Element(<<"1", "2", ",", "5", "0">> \o zloty),
                  Element(<<"z", "a", " ", "d", "a", "r", "m", "o">>)}
SellerElements == {Absent, Element(<<" ">>), Element(<<"j", "a", "n">>)}
ConditionElements == {Absent, Element(<<>>), Element(<<" ", "N", "o", "w", "e">>),
                      Element(<<"d", "o", "b", "r", "y">>)}
(* the page's application/ld+json script: none, one without content      *)
(* (its .string is None), or one whose content is not JSON                 *)
Scripts == {"none", "empty", "malformed"}
(* json.loads(script.string): a TypeError on None is not among the         *)
(* exceptions get_item_details catches, a JSONDecodeError is               *)
ScriptRaises(script) == script = "empty"
Urls == {<< << <<"o", "l", "x">> >>, << <<"i", "P", "h", "o", "n", "e">>, <<"1", "2">> >> >>,
         << << <<"o", "l", "x">> >>, << <<"b", "i", "u", "r", "k", "o">> >> >>}
ParsedPages == [title : TitleElements, price : PriceElements, seller : SellerElements,
                condition : ConditionElements, url : {<<>>}, script : {"none"}]

(* one item is built: the page (or the listing's link) could not be had - *)
(* the builder returns without an item - or its elements are parsed       *)
BuildItem(builder, fetched, page) ==
    /\ built' = [builder |-> builder, fetched |-> fetched, page |-> page,
                 raised |-> /\ fetched
                            /\ builder = "AllegroScraper.get_item_details"
                            /\ ScriptRaises(page.script),
                 item |-> IF ~fetched THEN NoDetails
                          ELSE IF builder = "OLXScraper.get_item_details"
                          THEN olx_get_item_details(page)
                          ELSE IF builder = "AllegroScraper.get_item_details"
                          THEN IF ScriptRaises(page.script) THEN NoDetails
                               ELSE allegro_get_item_details(page)
                          ELSE vinted_item(page)]
    /\ UNCHANGED <<poolVars, fetchVars, failedVia, lastGot, observe, raceVars, searchVars,
                   notBuilt>>

(* the builder has returned *)
BuildReturn ==
    /\ built # NoBuilt
    /\ built' = NoBuilt
    /\ UNCHANGED <<poolVars, fetchVars, failedVia, lastGot, observe, raceVars, searchVars,
                   notBuilt>>

NextBuild ==
    \/ /\ built = NoBuilt
       /\ \E builder \in Builders, fetched \in BOOLEAN, page \in ParsedPages, url \in Urls,
             script \in Scripts :
             BuildItem(builder, fetched, [page EXCEPT !.url = url, !.script = script])
    \/ BuildReturn

InitBuild == InitProxy /\ impl = "scraper" /\ max_failures = default_max_failures /\ observe = {}
SpecBuild == InitBuild /\ [][NextBuild]_vars

-----------------------------------------------------------------------------
(* Properties *)

(* C1: every Proxy row whose failure_count has reached the manager's       *)
(* deactivation threshold (max_failures in scraper/proxy_manager.py, the   *)
(* literal 5 in utils/proxy_manager.py) has is_active = False.             *)
DeactivatedAtLimit ==
    \A p \in ProxyIds :
        proxies[p].exists /\ proxies[p].failure_count >= FailureLimit
            => ~proxies[p].is_active

(* a failure report took some proxy to the threshold *)
ReachedLimit ==
    \E p \in ProxyIds :
        proxies[p].exists /\ proxies[p].failure_count >= FailureLimit /\ ~proxies[p].is_active

(* C2: a deactivated proxy stays deactivated: the only step that turns     *)
(* is_active of an existing row from False to True is add_proxy for that   *)
(* row; no success report, failure report, get_proxy, verify_proxies or    *)
(* get_with_retry step does.                                               *)
OneWayLatch ==
    [][\A p \in ProxyIds :
          (proxies[p].exists /\ ~proxies[p].is_active /\ proxies'[p].is_active)
              => AddProxy(p)]_vars

(* a success report reset the count of a deactivated proxy, which stayed   *)
(* deactivated                                                             *)
SuccessAfterLatch ==
    \E p \in ProxyIds :
        proxies[p].exists /\ ~proxies[p].is_active /\ proxies[p].failure_count = 0

(* C3: a search that fell back to placeholder items returns normally, with *)
(* a non-empty error field and at most mock_count_max placeholder items.   *)
FallbackFlagged ==
    /\ response.status # "raised"
    /\ response.placeholder =>
          /\ response.has_error
          /\ response.error # ""
          /\ Len(response.results) <= mock_count_max

(* C4: strategies are invoked in chain order; none is invoked after one    *)
(* that returned a non-empty list; search then returns exactly that list.  *)
CascadeStopsAtFirstSuccess ==
    LET o == scraperRun.outcomes
        n == Len(scraperRun.outcomes)
    IN  /\ scraperRun.invoked = [j \in 1..n |-> j]
        /\ \A j \in 1..(n - 1) : o[j] <= 0
        /\ (n > 0 /\ o[n] > 0) =>
              /\ scraperRun.status = "returned"
              /\ scraperRun.items = StrategyItems(n, o[n])
        /\ (n = 0 \/ o[n] <= 0) => scraperRun.items = <<>>

(* the second of three strategies was the first to find items *)
CascadeStoppedEarly ==
    /\ scraperRun.status = "returned"
    /\ Len(StrategyList(scraperRun.chain)) = 3
    /\ scraperRun.invoked = <<1, 2>>
    /\ scraperRun.items # <<>>

(* C5: for page >= 1 and items_per_page >= 1 a registered scraper's list   *)
(* of length total is cut to the items at the (0-based) indices            *)
(* [(page-1)*items_per_page, min(page*items_per_page, total)), and         *)
(* has_more = (page*items_per_page < total); 45 items by 20: page 1 has    *)
(* items 0..19 and more, page 3 items 40..44 and no more, page 4 nothing.  *)
PaginationWindow ==
    (response.status = "returned" /\ ~response.placeholder) =>
        LET all == scraperRun.items
            total == Len(scraperRun.items)
            lo == (response.page - 1) * response.items_per_page
            hi == Min(response.page * response.items_per_page, Len(scraperRun.items))
            r == response.results
        IN  /\ response.total = total
            /\ Len(r) = (IF hi > lo THEN hi - lo ELSE 0)
            /\ \A j \in 1..Len(r) : r[j] = all[lo + j]
            /\ response.has_more = (response.page * response.items_per_page < total)
            /\ (total = 45 /\ response.items_per_page = 20) =>
                  /\ response.page = 1 =>
                        Len(r) = 20 /\ r[1] = all[1] /\ r[20] = all[20] /\ response.has_more
                  /\ response.page = 3 =>
                        Len(r) = 5 /\ r[1] = all[41] /\ r[5] = all[45] /\ ~response.has_more
                  /\ response.page = 4 => r = <<>> /\ ~response.has_more

(* page 3 of 45 items by 20 was returned *)
PaginationLastPage ==
    /\ response.status = "returned"
    /\ ~response.placeholder
    /\ response.total = 45
    /\ response.items_per_page = 20
    /\ response.page = 3
    /\ Len(response.results) = 5

TransientOutcomes == {"blocked", "error", "auth407"}

(* C6: get_with_retry issues at most max_retries HTTP attempts; an attempt *)
(* that fails transiently (403/429, RequestException, proxy-auth error)    *)
(* raises nothing and leaves the call in its loop; the call returns None   *)
(* only by leaving the loop after exactly max_retries attempts.            *)
FetchBounded ==
    [][/\ attempts' <= max_retries'
       /\ retries' <= max_retries'
       /\ \A outcome \in TransientOutcomes :
             FetchAttempt(outcome) => pc' = "loop" /\ result' = "pending"
       /\ result' = "None" => pc' = "done" /\ attempts' = max_retries'
       /\ (result' = "None" /\ result # "None") => FetchGiveUp]_vars

(* a call gave up after default_max_retries attempts *)
GaveUpAfterRetries ==
    /\ pc = "done"
    /\ result = "None"
    /\ max_retries = default_max_retries
    /\ attempts = default_max_retries

(* C7: an attempt makes a success report only if it returned HTTP 200; an  *)
(* attempt through a proxy that returned 403/429 makes a failure report    *)
(* for that proxy, no success report, and requests a replacement.          *)
SuccessReportOnlyOn200 ==
    /\ lastAttempt.success # {} => lastAttempt.outcome = "200"
    /\ (lastAttempt.outcome = "blocked" /\ lastAttempt.via # 0) =>
          /\ lastAttempt.failure = {lastAttempt.via}
          /\ lastAttempt.success = {}
          /\ lastAttempt.got

(* C8: a proxy through which FailureLimit attempts in a row have failed    *)
(* (none answered, no success reported in between) is inactive, and        *)
(* get_proxy does not return it.                                           *)
PersistentFailureDeactivates ==
    [][/\ \A p \in ProxyIds :
             failedVia'[p] >= FailureLimit => ~proxies'[p].is_active
       /\ (lastGot' # lastGot /\ lastGot'.via # 0)
             => failedVia'[lastGot'.via] < FailureLimit]_vars

(* C9: an attempt through proxy P that fails with a 407 proxy error sets   *)
(* P.failure_count to the threshold and P.is_active to False at once, the  *)
(* next attempt is direct, and no later attempt of the call goes through P *)
AuthFailureDeactivates ==
    [][/\ (attempts' = attempts + 1 /\ lastAttempt'.outcome = "auth407") =>
             /\ proxies'[lastAttempt'.via].failure_count = FailureLimit
             /\ ~proxies'[lastAttempt'.via].is_active
             /\ AttemptVia' = 0
       /\ pc' = "loop" => AttemptVia' \notin authFailed']_vars

(* C10: what get_proxy returns is active and below the failure threshold   *)
(* when it is returned.                                                    *)
AcquireEligible ==
    lastGot.via # 0 => lastGot.is_active /\ lastGot.failure_count < FailureLimit

(* C11: two get_proxy calls that overlap, each made while at least two     *)
(* eligible proxies were outside the cooldown window, never hold the same  *)
(* selected proxy: none selects what the other selected and has not yet    *)
(* marked as used.                                                         *)
NoDoubleSelection ==
    \A c, d \in Callers :
        (/\ c # d
         /\ calls[c].pc = "selected" /\ calls[d].pc = "selected"
         /\ Cardinality(calls[c].fresh) >= 2 /\ Cardinality(calls[d].fresh) >= 2
         /\ Via(calls[c].selected) # 0)
            => Via(calls[c].selected) # Via(calls[d].selected)

Eligible(T) ==
    {p \in ProxyIds : T[p].exists /\ T[p].is_active /\ T[p].failure_count < FailureLimit}

(* C12: whatever get_proxy may return in a state: a proxy outside the      *)
(* cooldown window when an eligible one exists, one with credentials when  *)
(* some such fresh proxy has credentials, and the eligible proxy with the  *)
(* oldest last_used when every eligible proxy is inside the window.        *)
SelectionPreference ==
    \A o \in GetProxyOutcomes(proxies, local_proxies, now) :
        LET p == Via(o.handle)
            fresh == EligibleFresh(proxies, now)
        IN  /\ fresh # {} => p \in fresh
            /\ (\E q \in fresh : HasCredentials(q)) => (p # 0 /\ HasCredentials(p))
            /\ (fresh = {} /\ Eligible(proxies) # {}) =>
                  /\ p \in Eligible(proxies)
                  /\ \A q \in Eligible(proxies) :
                        proxies[p].last_used <= proxies[q].last_used

(* C13: while get_with_retry holds no proxy (none configured, or get_proxy *)
(* returned None after a failure report) its next attempt is direct, not   *)
(* through any proxy, and the call has raised nothing.                     *)
ExhaustionGoesDirect ==
    (pc = "loop" /\ curProxy = NoProxy) => (AttemptVia = 0 /\ result = "pending")

(* C14: when the strategy just invoked raised, search has not raised: it   *)
(* is about to try the next strategy of the chain, or, after the last one, *)
(* it has returned the empty list.                                         *)
StrategyExceptionCaught ==
    LET o == scraperRun.outcomes
        n == Len(scraperRun.outcomes)
    IN  (n > 0 /\ o[n] = RAISES) =>
            IF n < Len(StrategyList(scraperRun.chain))
            THEN scraperRun.status = "running" /\ scraperRun.next = n + 1
            ELSE scraperRun.status = "returned" /\ scraperRun.items = <<>>

(* every strategy of the chain was invoked and none produced an item *)
Exhausted(run) ==
    /\ Len(run.outcomes) = Len(StrategyList(run.chain))
    /\ \A j \in 1..Len(run.outcomes) : run.outcomes[j] <= 0

(* C15: when every strategy of a registered scraper is exhausted without   *)
(* items, search returns the empty list, and the manager's response to it  *)
(* has results = [], total = 0, has_more = False, no error field and no    *)
(* placeholder items.                                                      *)
EmptyIsNotFailure ==
    (scraperRun.chain \in Registered /\ Exhausted(scraperRun)) =>
        /\ scraperRun.status = "returned"
        /\ scraperRun.items = <<>>
        /\ response.status = "returned" =>
              /\ response.results = <<>>
              /\ response.total = 0
              /\ ~response.has_more
              /\ ~response.has_error
              /\ ~response.placeholder

(* a registered scraper whose last strategy raised and whose other         *)
(* strategies found nothing got an empty, unflagged response               *)
EmptyResponseReturned ==
    /\ scraperRun.chain \in Registered
    /\ Exhausted(scraperRun)
    /\ scraperRun.outcomes[Len(scraperRun.outcomes)] = RAISES
    /\ response.status = "returned"
    /\ response.marketplace = scraperRun.chain
    /\ response.results = <<>>

(* C16: every item a strategy appends to the list search returns is        *)
(* accepted by the scraper's _passes_filters for the filters of the call   *)
(* (so its price lies within price_min and price_max when they are set).   *)
FilteredBeforeInclusion ==
    candidate.included =>
        passes_filters(candidate.scraper, candidate.item, candidate.filters)

(* the price half of C16 on its own: no appended item is outside the       *)
(* price bounds of the call                                                *)
IncludedWithinPrice ==
    candidate.included => ~PriceRejects(candidate.item, candidate.filters)

(* the strategy that decided on the candidate called _passes_filters *)
CalledPassesFilters ==
    /\ candidate # NoCandidate
    /\ ~(candidate.scraper = "marketplace_scrapers.olx"
         /\ candidate.strategy = "_parse_search_page")

(* C17: in every scraper the condition clause of _passes_filters rejects   *)
(* exactly when filters.condition and item.condition are both present,     *)
(* item.condition is not "Unknown" and filters.condition is not a          *)
(* case-insensitive substring of item.condition; an "Unknown" condition    *)
(* is never rejected.                                                      *)
ConditionClauseUniform ==
    CalledPassesFilters =>
        (ConditionRejects(candidate.scraper, candidate.item, candidate.filters)
            <=> /\ candidate.filters.condition # <<>>
                /\ candidate.item.condition # <<>>
                /\ candidate.item.condition # Unknown
                /\ ~Contains(lower(candidate.filters.condition),
                             lower(candidate.item.condition)))

(* C18: in every scraper's search, structured-data extraction is attempted *)
(* before DOM-selector extraction, and heuristic full-text extraction only *)
(* after both: no technique is attempted after one that ranks below it.    *)
UniformStrategyOrder ==
    LET tried == Attempted(scraperRun.chain, scraperRun.invoked)
    IN  \A i, j \in DOMAIN tried :
            i < j => /\ ~(tried[i] = "dom" /\ tried[j] = "structured")
                     /\ ~(tried[i] = "heuristic" /\ tried[j] \in {"structured", "dom"})

(* C19: when a scraper cannot be imported or cannot be instantiated, the   *)
(* construction of the registry completes with the remaining scrapers, and *)
(* a lookup of that marketplace or of an unknown one returns None.         *)
GracefulAbsence ==
    manager.status # "none" =>
        /\ manager.status = "constructed"
        /\ manager.scrapers = manager.importable \ manager.failing
        /\ manager.asked # "none" =>
              manager.got = (IF manager.asked \in manager.importable \ manager.failing
                             THEN manager.asked ELSE "None")

(* scraper.search of the dispatched call has returned or raised *)
ScraperDone == response.status = "dispatched" /\ scraperRun.status \in {"returned", "raised"}

(* C20: within one call of the orchestrator's search the scraper's search  *)
(* is invoked once: when it has returned or raised, the next step ends the *)
(* call without invoking it again, and after a raise that step generates   *)
(* the fallback and returns it.                                            *)
NoRetryThenFallback ==
    [][ScraperDone =>
          /\ scraperRun' = scraperRun
          /\ response'.status = "returned"
          /\ scraperRun.status = "raised" => response'.placeholder]_vars

(* the retry half of C20 on its own: the step after scraper.search ends    *)
(* the call, by a response or by an exception, and never re-invokes the    *)
(* scraper                                                                 *)
NoRetryAtThisLayer ==
    [][ScraperDone =>
          /\ scraperRun' = scraperRun
          /\ response'.status \in {"returned", "raised"}]_vars

RECURSIVE ConcatInOrder(_, _)
(* the concatenation, in request order, of what the first k searches gave *)
ConcatInOrder(outcomes, k) ==
    IF k = 0 THEN <<>>
    ELSE ConcatInOrder(outcomes, k - 1)
             \o FanOutItems(k, IF outcomes[k] > 0 THEN outcomes[k] ELSE 0)

(* C21: the request never ends in an exception of a scraper; when it       *)
(* returns, every requested marketplace was handled, exactly those without *)
(* a scraper were skipped, and the response is the concatenation in        *)
(* request order of the lists the searches returned, a raising search      *)
(* contributing nothing.                                                   *)
FanOutConcatenates ==
    /\ fanout.status # "raised"
    /\ fanout.status = "returned" =>
          /\ Len(fanout.outcomes) = Len(fanout.marketplaces)
          /\ \A k \in DOMAIN fanout.marketplaces :
                fanout.outcomes[k] = SKIPPED
                    <=> lower(fanout.marketplaces[k]) \notin FanOutScrapers
          /\ fanout.results = ConcatInOrder(fanout.outcomes, Len(fanout.outcomes))

(* a request whose first scraper raised returned the second one's items *)
FanOutPastFailure ==
    /\ fanout.status = "returned"
    /\ Len(fanout.outcomes) = 2
    /\ fanout.outcomes[1] = RAISES
    /\ fanout.outcomes[2] > 0
    /\ fanout.results = FanOutItems(2, fanout.outcomes[2])

(* C22: verify_proxies returns only when every submitted test has          *)
(* completed; every proxy that was active at its start is then in exactly  *)
(* one of 'working' and 'failed', mark_success was applied exactly once to *)
(* each working proxy and mark_failure exactly once to each failed one.    *)
VerifyPartitions ==
    verifyRun.status = "returned" =>
        /\ verifyRun.pending = {} /\ verifyRun.completed = {}
        /\ verifyRun.working \cup verifyRun.failed = verifyRun.submitted
        /\ verifyRun.working \cap verifyRun.failed = {}
        /\ \A p \in ProxyIds :
              /\ verifyRun.successes[p] = (IF p \in verifyRun.working THEN 1 ELSE 0)
              /\ verifyRun.failures[p] = (IF p \in verifyRun.failed THEN 1 ELSE 0)

(* a run over two proxies returned with one working and one failed *)
VerifiedBothKinds ==
    /\ verifyRun.status = "returned"
    /\ verifyRun.working # {}
    /\ verifyRun.failed # {}

(* C29: every proxy a verify_proxies run classifies and marks was tested   *)
(* by a request made during that run; no outcome of an earlier run is      *)
(* reused.                                                                 *)
TestedInThisRun ==
    (verifyRun.working \cup verifyRun.failed \cup verifyRun.completed) \subseteq verifyRun.tested

(* C23: at every call site the title is retained exactly when it would be  *)
(* with a similarity threshold between 0.70 and 0.80: some keyword is a     *)
(* substring of the cleaned title or its similarity ratio reaches the      *)
(* threshold.                                                              *)
KeywordRetention ==
    textCall.fn = "fuzzy_match_keywords" =>
        /\ textCall.threshold \in 70..80
        /\ \E hundredths \in 70..80 :
              textCall.result
                  = fuzzy_match_keywords(textCall.text, textCall.keywords, hundredths)

(* C24: a price parser given "<int>[.,]<int> zl" (the integer possibly in  *)
(* space-separated groups) returns the number with the comma or the point  *)
(* as the decimal point, in PLN; given a text without a digit it returns   *)
(* the price 0.0.                                                          *)
PriceParsing ==
    textCall.fn = "parse_price" =>
        /\ \A int \in IntegerParts, sep \in Separators, dec \in Decimals :
              textCall.text = PriceText(int, sep, dec) =>
                  /\ textCall.price = ToNumber(Flatten(int)) * 100 + Hundredths(dec)
                  /\ textCall.currency = "PLN"
        /\ (\A i \in 1..Len(textCall.text) : ~IsDigit(textCall.text[i])) =>
              textCall.price = 0

Defaulted(element, field, default) ==
    (~element.present \/ Strip(element.text) = <<>>) => field = default

(* C25: an item built from a page with missing or malformed (empty)        *)
(* elements is built without raising and has the defaults: price 0.0,      *)
(* title "Unknown Item", seller_name "Unknown", condition "Unknown".       *)
FallbackTotality ==
    (built.builder # "none" /\ built.fetched) =>
        /\ ~built.raised
        /\ Defaulted(built.page.title, built.item.title, UnknownItem)
        /\ (~built.page.price.present \/ CommaPattern(Strip(built.page.price.text)) = NoMatch)
              => built.item.price = 0
        /\ Defaulted(built.page.seller, built.item.seller_name, Unknown)
        /\ Defaulted(built.page.condition, built.item.condition, Unknown)

FailureReachesRecord ==
    [][(impl = "utils" /\ attempts' = attempts + 1 /\ lastAttempt'.failure # {})
          => \A p \in lastAttempt'.failure :
                /\ p \in ProxyIds
                /\ proxies'[p].failure_count = proxies[p].failure_count + 1
                /\ \A q \in ProxyIds \ {p} :
                      proxies'[q].failure_count = proxies[q].failure_count]_vars

RECURSIVE JoinPages(_)
(* the results of the pages, one after the other *)
JoinPages(pages) ==
    IF pages = <<>> THEN <<>> ELSE Head(pages).results \o JoinPages(Tail(pages))
ItemsOf(page) == {page.results[j] : j \in 1..Len(page.results)}

(* C28: the pages 1, 2, 3, ... of one list, for an items_per_page >= 1,    *)
(* are pairwise disjoint and in list order: together they are the list up  *)
(* to the last page requested, and the whole list once a page reports no   *)
(* more; has_more holds on page p exactly when page p + 1 is not empty.    *)
PagesPartition ==
    pager.status = "active" =>
        LET k == Len(pager.pages)
            all == pager.list
        IN  /\ JoinPages(pager.pages) = Slice(all, 0, Min(k * pager.items_per_page, Len(all)))
            /\ \A p, q \in 1..k : p # q => ItemsOf(pager.pages[p]) \cap ItemsOf(pager.pages[q]) = {}
            /\ \A p \in 1..(k - 1) : pager.pages[p].has_more = (pager.pages[p + 1].results # <<>>)
            /\ (k >= 1 /\ ~pager.pages[k].has_more) => JoinPages(pager.pages) = all

(* 45 items by 20 were paged through: two full pages, a page of five and   *)
(* an empty fourth page                                                    *)
PagedThrough ==
    /\ Len(pager.list) = 45
    /\ pager.items_per_page = 20
    /\ Len(pager.pages) = 4
    /\ Len(pager.pages[3].results) = 5
    /\ pager.pages[4].results = <<>>

(* C30: for every interval add_to_monitor or update_monitor_settings can   *)
(* store and every last_run, the loop of next_update_filter ends and the   *)
(* filter returns.                                                         *)
NextUpdateTerminates == (monitor.pc = "loop") ~> (monitor.pc = "returned")
====
